---- MODULE Spec2Model ----
(***************************************************************************)
(* Model of the Y2K digital-camera effect pipeline (utils/y2kEffects.ts,   *)
(* kept as src/unnamed/part_001).                                          *)
(*                                                                         *)
(* Numbers.  JavaScript numbers are modelled in fixed point: a real v is   *)
(* the integer v*FP, and every product or quotient is rounded to the       *)
(* nearest unit (Mul, Div), which stands for the rounding of the floating  *)
(* point unit.  Channel values are therefore integers in 0..255*FP.        *)
(* Images.  An SkImage is a record [w, h, bytes, stamp]: bytes is the      *)
(* RGBA_8888 content (row major, four bytes per pixel), stamp the text     *)
(* drawn over it.  The content of an image of more than MaxTracked pixels  *)
(* is not tracked (bytes = << >>); only its geometry is.                   *)
(***************************************************************************)
EXTENDS Integers, Sequences, FiniteSets, TLC

\* ------------------------------------------------------------------------
\* Bounds of the model
\* ------------------------------------------------------------------------
\* side of the largest image whose pixels are tracked
MaxSide == 2
\* number of synthetic test patterns used to fill tracked images
MaxPattern == 2
\* number of pseudo-random streams the random source may be seeded with
MaxSeed == 2
MaxChromaSide == 6
MaxBarrelSide == 12
MaxCalls == 2
MaxResets == 1

\* ------------------------------------------------------------------------
\* Fixed-point arithmetic
\* ------------------------------------------------------------------------
FP == 1000

Max255 == 255 * FP

\* Math.round(a/b) for b > 0: round half up
RoundDiv(a, b) == (2 * a + b) \div (2 * b)

Mul(a, b) == RoundDiv(a * b, FP)

Div(a, b) == IF b > 0 THEN RoundDiv(a * FP, b) ELSE 0 - RoundDiv(a * FP, 0 - b)

\* Math.floor / Math.round of a fixed-point value, as an integer
Floor(a) == a \div FP

Round(a) == RoundDiv(a, FP)

Max2(a, b) == IF a > b THEN a ELSE b

Min2(a, b) == IF a < b THEN a ELSE b

RECURSIVE IsqrtBetween(_, _, _)
IsqrtBetween(n, lo, hi) ==
  IF lo >= hi THEN lo
  ELSE LET mid == (lo + hi + 1) \div 2
       IN IF mid * mid <= n THEN IsqrtBetween(n, mid, hi)
          ELSE IsqrtBetween(n, lo, mid - 1)

\* floor of the square root of a natural number
Isqrt(n) == IF n <= 0 THEN 0 ELSE IsqrtBetween(n, 0, 46340)

\* Math.sqrt of a fixed-point value
Sqrt(a) == Isqrt(a * FP)

\* Math.pow(a, 1.5) for a >= 0
Pow15(a) == Mul(a, Sqrt(a))

\* Math.pow(a, 0.7) for a in [0,1]; the exponent is taken as 11/16
\* (1/2 + 1/8 + 1/16), computed with nested square roots
Pow07(a) ==
  LET s1 == Sqrt(a)
      s3 == Sqrt(Sqrt(s1))
      s4 == Sqrt(s3)
  IN Mul(Mul(s1, s3), s4)

\* clamp without its two comparisons
clampNothing(val, min, max) == val

clamp(val, min, max) == IF val < min THEN min ELSE IF val > max THEN max ELSE val

\* ------------------------------------------------------------------------
\* Pixel buffers
\* ------------------------------------------------------------------------
\* a freshly allocated typed array holding the values of f
Arr(f) == f \o << >>

RECURSIVE SumTo(_, _)
\* f[1] + ... + f[n]
SumTo(f, n) == IF n = 0 THEN 0 ELSE SumTo(f, n - 1) + f[n]

\* channel (0 = R .. 3 = A) of the 1-based position i of a flat RGBA buffer
Chan(i) == (i - 1) % 4

\* 1-based position of the R channel of the pixel that position i belongs to
Base(i) == i - Chan(i)

\* 0-based pixel coordinates of position i in an image of width w
PixX(i, w) == ((i - 1) \div 4) % w

PixY(i, w) == ((i - 1) \div 4) \div w

\* 1-based position of channel c of pixel (x, y)
idx(x, y, w, c) == (y * w + x) * 4 + c + 1

\* luminance of the pixel whose R channel is at position b
luminance(data, b) ==
  RoundDiv(299 * data[b] + 587 * data[b + 1] + 114 * data[b + 2], 1000)

imageToPixels(image) ==
  [data |-> [i \in DOMAIN image.bytes |-> image.bytes[i] * FP],
   width |-> image.w, height |-> image.h]

pixelsToImage(data, width, height) ==
  [w |-> width, h |-> height,
   bytes |-> [i \in DOMAIN data |-> Max2(0, Min2(255, Round(data[i])))],
   stamp |-> << >>]

\* ------------------------------------------------------------------------
\* Skia surface helpers
\* ------------------------------------------------------------------------
\* Skia.Surface.Make yields no surface for an empty or negative extent, and
\* makeSurface then throws
makeSurfaceOk(width, height) == width >= 1 /\ height >= 1

\* drawImageRect of the whole image onto a width x height surface.  Drawing
\* at the image's own size copies the pixels; a resampled content is not
\* tracked.
drawImageToSurface(image, width, height) ==
  [ok |-> makeSurfaceOk(width, height),
   image |-> [w |-> width, h |-> height,
              bytes |-> IF width = image.w /\ height = image.h
                        THEN image.bytes ELSE << >>,
              stamp |-> image.stamp]]

pilRadiusToSigma(radius) == Mul(radius, 425)

\* Weight (of FP) that MakeBlur gives to the four direct neighbours of a
\* pixel relative to the pixel itself: 0 for a vanishing sigma, towards 1
\* for a large one (s^4 / (s^4 + 0.65) follows exp(-1/(2 s^2))).
NeighbourWeight(sigma) ==
  LET s  == Min2(sigma, 4 * FP)
      s2 == Mul(s, s)
      s4 == Mul(s2, s2)
  IN Div(s4, s4 + 650)

\* byte of channel Chan(i) of the neighbour of pixel i displaced by (dx, dy),
\* with TileMode.Clamp at the border
Neighbour(image, i, dx, dy) ==
  LET x == clamp(PixX(i, image.w) + dx, 0, image.w - 1)
      y == clamp(PixY(i, image.w) + dy, 0, image.h - 1)
  IN image.bytes[idx(x, y, image.w, Chan(i))]

applyGaussianBlur(image, sigma) ==
  IF sigma <= 0 THEN image
  ELSE LET nw == NeighbourWeight(sigma)
       IN [image EXCEPT !.bytes =
            [i \in DOMAIN image.bytes |->
               RoundDiv(FP * image.bytes[i]
                        + nw * (Neighbour(image, i, -1, 0) + Neighbour(image, i, 1, 0)
                                + Neighbour(image, i, 0, -1) + Neighbour(image, i, 0, 1)),
                        FP + 4 * nw)]]

\* ------------------------------------------------------------------------
\* Effect functions
\* ------------------------------------------------------------------------
targetPixels == 2000000

RECURSIVE LongDiv(_, _, _, _)
\* floor(num * 100^steps / den) without leaving 32 bits, q digits so far
LongDiv(q, num, den, steps) ==
  IF steps = 0 THEN q
  ELSE LongDiv(q * 100 + (num * 100) \div den, (num * 100) % den, den, steps - 1)

\* Math.sqrt(targetPixels / currentPixels) in units of 1/10000, for
\* currentPixels > targetPixels
ScaleOf(currentPixels) == Isqrt(LongDiv(0, targetPixels, currentPixels, 4))

\* BlendedOf with the sign of the blend slipped
BlendedOfSignSlip(currentPixels, intensity) ==
  100000 + RoundDiv((10000 - ScaleOf(currentPixels)) * intensity, 100)

\* 1 - (1 - scale) * intensity in units of 1/100000
BlendedOf(currentPixels, intensity) ==
  100000 - RoundDiv((10000 - ScaleOf(currentPixels)) * intensity, 100)

NewSide(side, currentPixels, intensity) ==
  RoundDiv(side * BlendedOf(currentPixels, intensity), 100000)

\* reduceResolution with a strict comparison against targetPixels
reduceResolutionStrict(image, intensity) ==
  LET w == image.w
      h == image.h
      currentPixels == w * h
  IN IF currentPixels < targetPixels
     THEN [ok |-> TRUE, image |-> image, drew |-> FALSE]
     ELSE LET r == drawImageToSurface(image,
                     NewSide(w, currentPixels, intensity),
                     NewSide(h, currentPixels, intensity))
          IN [ok |-> r.ok, image |-> r.image, drew |-> TRUE]

\* Step 1.  drew tells whether a surface was drawn (the image was resampled)
reduceResolution(image, intensity) ==
  LET w == image.w
      h == image.h
      currentPixels == w * h
  IN IF currentPixels <= targetPixels
     THEN [ok |-> TRUE, image |-> image, drew |-> FALSE]
     ELSE LET r == drawImageToSurface(image,
                     NewSide(w, currentPixels, intensity),
                     NewSide(h, currentPixels, intensity))
          IN [ok |-> r.ok, image |-> r.image, drew |-> TRUE]

\* Step 2
applyCoolCast(data, intensity) ==
  LET rMul == FP - Mul(60, intensity)
      gMul == FP + Mul(20, intensity)
      bMul == FP + Mul(80, intensity)
  IN [i \in DOMAIN data |->
        CASE Chan(i) = 0 -> clamp(Mul(data[i], rMul), 0, Max255)
          [] Chan(i) = 1 -> clamp(Mul(data[i], gMul), 0, Max255)
          [] Chan(i) = 2 -> clamp(Mul(data[i], bMul), 0, Max255)
          [] OTHER -> data[i]]

\* Step 3a
adjustSaturation(data, factor) ==
  [i \in DOMAIN data |->
     IF Chan(i) = 3 THEN data[i]
     ELSE LET lum == luminance(data, Base(i))
          IN clamp(lum + Mul(data[i] - lum, factor), 0, Max255)]

\* value of one channel after the vibrance transform
VibranceChannel(data, i, vibranceFactor) ==
  LET r == RoundDiv(data[Base(i)], 255)
      g == RoundDiv(data[Base(i) + 1], 255)
      b == RoundDiv(data[Base(i) + 2], 255)
      v == RoundDiv(data[i], 255)
      maxC == Max2(r, Max2(g, b))
      minC == Min2(r, Min2(g, b))
      sat == IF maxC = 0 THEN 0 ELSE Div(maxC - minC, maxC)
      curve == Pow15(FP - sat)
      adjustment == Mul(vibranceFactor - FP, curve)
      lum == RoundDiv(299 * r + 587 * g + 114 * b, 1000)
      newFactor == FP + adjustment
  IN clamp((lum + Mul(v - lum, newFactor)) * 255, 0, Max255)

\* TRUE when adjustVibrance returns before its loop
VibranceReturnsEarly(vibranceFactor) == vibranceFactor = FP

\* Step 3b
adjustVibrance(data, vibranceFactor) ==
  IF VibranceReturnsEarly(vibranceFactor) THEN data
  ELSE [i \in DOMAIN data |->
          IF Chan(i) = 3 THEN data[i]
          ELSE VibranceChannel(data, i, vibranceFactor)]

\* Step 4
reduceDynamicRange(data, intensity) ==
  LET blackLift == 8 * intensity
      highlightCompress == 950 - Mul(50, intensity)
      contrastReduction == 900 + Mul(100, FP - intensity)
      mid == 128 * FP
  IN [i \in DOMAIN data |->
        IF Chan(i) = 3 THEN data[i]
        ELSE clamp(Mul(Mul(data[i] + blackLift, highlightCompress) - mid,
                       contrastReduction) + mid, 0, Max255)]

\* grey RGBA buffer (alpha 255) made from one value per pixel, which vals
\* holds at the position of the pixel's R channel
GreyRGBA(vals) ==
  [i \in DOMAIN vals |-> IF Chan(i) = 3 THEN Max255 ELSE vals[Base(i)]]

\* Step 4b: the buffer that reduceLocalContrast hands to pixelsToImage
reduceLocalContrastData(image, amount) ==
  LET px == imageToPixels(image)
      data == px.data
      Lum(b) == luminance(data, b)
      lumData == Arr([i \in DOMAIN data |-> Lum(Base(i))])
      lumImage == pixelsToImage(GreyRGBA(lumData), px.width, px.height)
      blurredPixels == imageToPixels(applyGaussianBlur(lumImage,
                                       pilRadiusToSigma((5 \div 2) * FP)))
  IN [i \in DOMAIN data |->
        IF Chan(i) = 3 THEN data[i]
        ELSE LET lum == Lum(Base(i))
                 localMean == blurredPixels.data[Base(i)]
                 lumReduced == localMean + Mul(lum - localMean, FP - amount)
                 ratio == IF lum # 0 THEN clamp(Div(lumReduced, lum), 0, 2 * FP)
                          ELSE FP
             IN clamp(Mul(data[i], ratio), 0, Max255)]

reduceLocalContrast(image, amount) ==
  pixelsToImage(reduceLocalContrastData(image, amount), image.w, image.h)

\* hm of the pixel whose R channel is at position b
HighlightMask(data, b, highlightThreshold) ==
  Pow07(clamp(Div(luminance(data, b) - highlightThreshold,
                  Max255 - highlightThreshold), 0, FP))

\* the bloom result with the additive glow subtracted instead of added
BloomChannelSubtractive(adjusted, combinedBloom, b, c, intensity, bloomStrength) ==
  LET screenAmount == Mul(Mul(500, intensity), bloomStrength)
      additiveAmount == Mul(Mul(250, intensity), bloomStrength)
      orig == RoundDiv(adjusted[b + c], 255)
      bloom == RoundDiv(combinedBloom[b + c], 255)
      screened == FP - Mul(FP - orig, FP - Mul(bloom, screenAmount))
  IN clamp(screened * 255 - Mul(combinedBloom[b + c], additiveAmount), 0, Max255)

\* value of channel c (0..2) of the bloom result at the pixel based at b
BloomChannel(adjusted, combinedBloom, b, c, intensity, bloomStrength) ==
  LET screenAmount == Mul(Mul(500, intensity), bloomStrength)
      additiveAmount == Mul(Mul(250, intensity), bloomStrength)
      orig == RoundDiv(adjusted[b + c], 255)
      bloom == RoundDiv(combinedBloom[b + c], 255)
      screened == FP - Mul(FP - orig, FP - Mul(bloom, screenAmount))
      bloomLum == Div(combinedBloom[b] + combinedBloom[b + 1] + combinedBloom[b + 2],
                      765 * FP)
      bmask == clamp(bloomLum, 0, FP)
      shift == IF c = 0 THEN Mul(Mul(bmask * 8, intensity), bloomStrength)
               ELSE IF c = 2 THEN Mul(Mul(bmask * 4, intensity), bloomStrength)
               ELSE 0
  IN clamp(screened * 255 + Mul(combinedBloom[b + c], additiveAmount) + shift,
           0, Max255)

\* Step 5: the buffer (result) that applyBloomEffect hands to pixelsToImage
applyBloomEffectData(image, opts) ==
  LET px == imageToPixels(image)
      data == Arr(px.data)
      width == px.width
      height == px.height
      intensity == opts.intensity
      Hm(b) == HighlightMask(data, b, opts.highlightThreshold)
      \* highlight mask, one entry per buffer position (alpha entries unused)
      highlightMask == Arr([i \in DOMAIN data |-> IF Chan(i) = 0 THEN Hm(i) ELSE 0])
      bloomPixels == [i \in DOMAIN data |->
                        IF Chan(i) = 3 THEN Max255
                        ELSE Mul(data[i], highlightMask[Base(i)])]
      bloomImage == pixelsToImage(Arr(bloomPixels), width, height)
      baseBloomRadius == Max2(15, Floor(40 * intensity))
      r1 == pilRadiusToSigma(baseBloomRadius * opts.bloomRadius)
      r2 == pilRadiusToSigma(RoundDiv(baseBloomRadius * opts.bloomRadius * 5, 2))
      r3 == pilRadiusToSigma(baseBloomRadius * opts.bloomRadius * 4)
      bloom1 == Arr(imageToPixels(applyGaussianBlur(bloomImage, r1)).data)
      bloom2 == Arr(imageToPixels(applyGaussianBlur(bloomImage, r2)).data)
      bloom3 == Arr(imageToPixels(applyGaussianBlur(bloomImage, r3)).data)
      combinedBloom == Arr([i \in DOMAIN data |->
                         RoundDiv(bloom1[i] * 400 + bloom2[i] * 350 + bloom3[i] * 250,
                                  1000)])
      baseCrushRadius == Max2(10, Floor(30 * intensity))
      cr1 == pilRadiusToSigma(baseCrushRadius * opts.shadowCrushRadius)
      cr2 == pilRadiusToSigma(baseCrushRadius * opts.shadowCrushRadius * 2)
      hmBytes == Arr([i \in DOMAIN data |-> highlightMask[i] * 255])
      hmImage == pixelsToImage(Arr(GreyRGBA(hmBytes)), width, height)
      crush1Pixels == Arr(imageToPixels(applyGaussianBlur(hmImage, cr1)).data)
      crush2Pixels == Arr(imageToPixels(applyGaussianBlur(hmImage, cr2)).data)
      CrushInfluence(b) == RoundDiv(RoundDiv(crush1Pixels[b], 255) * 600
                                    + RoundDiv(crush2Pixels[b], 255) * 400, 1000)
      highlightSum == SumTo(highlightMask, Len(data))
      highlightAmount == IF width * height = 0 THEN 0
                         ELSE RoundDiv(highlightSum, width * height)
      shadowCrushFactor ==
        FP + Mul(Mul(Mul(150, intensity), opts.shadowCrushStrength),
                 FP + highlightAmount * 2)
      blackLift == Mul(5 * intensity, 2 * FP - opts.shadowCrushStrength)
      Adjusted(i) ==
        LET lum == luminance(data, Base(i))
            shadowMask == Pow15(clamp(FP - RoundDiv(lum, 128), 0, FP))
            crushAmount ==
              Mul(Mul(Mul(Mul(Mul(shadowMask, CrushInfluence(Base(i))), 300),
                          intensity), opts.shadowCrushStrength), shadowCrushFactor)
            shadowAdj == FP - crushAmount
        IN Max2(Mul(data[i], shadowAdj), blackLift)
      adjusted == Arr([i \in DOMAIN data |->
                    IF Chan(i) = 3 THEN Max255 ELSE Adjusted(i)])
  IN [i \in DOMAIN data |->
        IF Chan(i) = 3 THEN Max255
        ELSE BloomChannel(adjusted, combinedBloom, Base(i), Chan(i),
                          intensity, opts.bloomStrength)]

applyBloomEffect(image, opts) ==
  pixelsToImage(applyBloomEffectData(image, opts), image.w, image.h)

\* the shift rounded instead of floored
ChromaShiftRound(intensity) == Round(2 * intensity)

\* floor(2 * intensity)
ChromaShift(intensity) == Floor(2 * intensity)

RECURSIVE InPlaceRed(_, _, _, _, _, _)
\* the red value at (x, y) when the sample is read from the buffer being
\* written: the pixel at (x - shift, y - shift) has been written before
InPlaceRed(data, x, y, w, shift, intensity) ==
  IF y - shift >= 0 /\ x - shift >= 0
  THEN clamp(Mul(data[idx(x, y, w, 0)], FP - Mul(500, intensity))
             + Mul(InPlaceRed(data, x - shift, y - shift, w, shift, intensity),
                   Mul(500, intensity)),
             0, Max255)
  ELSE data[idx(x, y, w, 0)]

\* the stage without the copy of the buffer (orig is data itself)
addChromaticAberrationInPlace(data, w, h, intensity) ==
  LET shift == ChromaShift(intensity)
  IN IF shift < 1 THEN data
     ELSE [i \in DOMAIN data |->
             LET x == PixX(i, w)
                 y == PixY(i, w)
             IN IF Chan(i) = 0 THEN InPlaceRed(data, x, y, w, shift, intensity)
                ELSE IF Chan(i) = 2 /\ y + shift < h /\ x + shift < w
                THEN clamp(Mul(data[i], FP - Mul(500, intensity))
                           + Mul(data[idx(x + shift, y + shift, w, 2)],
                                 Mul(500, intensity)),
                           0, Max255)
                ELSE data[i]]

\* Step 5b
addChromaticAberration(data, w, h, intensity) ==
  LET shift == ChromaShift(intensity)
      orig == data
      blendOrig == FP - Mul(500, intensity)
      blendShift == Mul(500, intensity)
  IN IF shift < 1 THEN data
     ELSE [i \in DOMAIN data |->
             LET x == PixX(i, w)
                 y == PixY(i, w)
             IN IF Chan(i) = 0 /\ y - shift >= 0 /\ x - shift >= 0
                THEN clamp(Mul(orig[i], blendOrig)
                           + Mul(orig[idx(x - shift, y - shift, w, 0)], blendShift),
                           0, Max255)
                ELSE IF Chan(i) = 2 /\ y + shift < h /\ x + shift < w
                THEN clamp(Mul(orig[i], blendOrig)
                           + Mul(orig[idx(x + shift, y + shift, w, 2)], blendShift),
                           0, Max255)
                ELSE data[i]]

\* Step 6: the buffer that applyOversharpening hands to pixelsToImage
applyOversharpeningData(image, intensity) ==
  LET sigma == pilRadiusToSigma(1500)
      blurred == applyGaussianBlur(image, sigma)
      origPx == imageToPixels(image)
      blurPx == imageToPixels(blurred)
      sharpeningAmount == Mul(1500, intensity)
  IN [i \in DOMAIN origPx.data |->
        IF Chan(i) = 3 THEN origPx.data[i]
        ELSE clamp(origPx.data[i]
                   + Mul(origPx.data[i] - blurPx.data[i], sharpeningAmount),
                   0, Max255)]

applyOversharpening(image, intensity) ==
  pixelsToImage(applyOversharpeningData(image, intensity), image.w, image.h)

\* ------------------------------------------------------------------------
\* Random source.  Math.random is a pseudo-random generator: rng is its
\* hidden state, a stream of values v/FP in [0,1) and a cursor.
\* ------------------------------------------------------------------------
MathRandom(rng) ==
  [value |-> rng.stream[rng.pos],
   rng |-> [rng EXCEPT !.pos = (rng.pos % Len(rng.stream)) + 1]]

RECURSIVE DrawNonZero(_, _)
\* while (u === 0) u = Math.random(); fuel bounds the redraws of the model
DrawNonZero(rng, fuel) ==
  LET d == MathRandom(rng)
  IN IF d.value # 0 \/ fuel = 0 THEN d ELSE DrawNonZero(d.rng, fuel - 1)

\* Math.sqrt(-2 ln u), tabulated at the midpoints of eight intervals of u
BoxMullerRadius(u) ==
  << 2355, 1830, 1525, 1286, 1073, 866, 644, 359 >>[((u * 8) \div FP) + 1]

\* Math.cos(2 pi v), tabulated at the midpoints of eight intervals of v
BoxMullerCos(v) ==
  << 924, 383, -383, -924, -924, -383, 383, 924 >>[((v * 8) \div FP) + 1]

randomNormal(rng) ==
  LET u == DrawNonZero(rng, Len(rng.stream))
      v == DrawNonZero(u.rng, Len(rng.stream))
  IN [value |-> Mul(BoxMullerRadius(u.value), BoxMullerCos(v.value)),
      rng |-> v.rng]

RECURSIVE NoiseFrom(_, _, _, _)
\* the pixel loop of addDigitalNoise from the pixel based at position b on;
\* the luminance of a pixel is read before its channels are written and
\* every channel takes its own normal draw
NoiseFrom(data, b, intensity, rng) ==
  IF b > Len(data) THEN [data |-> data, rng |-> rng]
  ELSE LET noiseStrength == 12 * intensity
           lum == luminance(data, b)
           shadowMask == FP - RoundDiv(lum, 255)
           n1 == randomNormal(rng)
           n2 == randomNormal(n1.rng)
           n3 == randomNormal(n2.rng)
           W(z) == Mul(Mul(z, noiseStrength), 500 + Mul(shadowMask, 500))
           d1 == [data EXCEPT
                    ![b] = clamp(data[b] + W(n1.value), 0, Max255),
                    ![b + 1] = clamp(data[b + 1] + W(n2.value), 0, Max255),
                    ![b + 2] = clamp(data[b + 2] + W(n3.value), 0, Max255)]
       IN NoiseFrom(d1, b + 4, intensity, n3.rng)

\* the noise strength taken from intensity + 1: noise remains at intensity 0
addDigitalNoiseFloor(data, intensity, rng) ==
  NoiseFrom(data, 1, intensity + FP, rng)

\* Step 7
addDigitalNoise(data, intensity, rng) == NoiseFrom(data, 1, intensity, rng)

\* the quality floored instead of rounded
JpegQualityFloor(intensity) == Floor(70 * FP - 30 * intensity)

\* quality handed to image.encodeToBytes
JpegQuality(intensity) == Round(70 * FP - 30 * intensity)

\* what the codec does to a byte: quantisation, coarser for a lower quality
JpegByte(byte, quality) ==
  LET q == 1 + (100 - clamp(quality, 0, 100)) \div 10
  IN Min2(255, RoundDiv(byte, q) * q)

\* encodeToBytes followed by MakeImageFromEncoded when both succeed
JpegRoundTrip(image, quality) ==
  [image EXCEPT !.bytes = [i \in DOMAIN image.bytes |->
                             IF Chan(i) = 3 THEN 255
                             ELSE JpegByte(image.bytes[i], quality)]]

CodecOutcomes == {"ok", "encodeFailed", "decodeFailed"}

\* applyJpegArtifacts without its two fallbacks to the input image
applyJpegArtifactsNoFallback(image, intensity, codec) ==
  JpegRoundTrip(image, JpegQuality(intensity))

\* Step 8
applyJpegArtifacts(image, intensity, codec) ==
  LET quality == JpegQuality(intensity)
      encoded == codec # "encodeFailed"
      decoded == codec = "ok"
  IN IF ~encoded THEN image
     ELSE IF decoded THEN JpegRoundTrip(image, quality) ELSE image

\* the sample position of a lens that pulls towards the centre
BarrelSampleInward(x, y, w, h, intensity) ==
  LET k == Mul(100, intensity)
      cx == w * 500
      cy == h * 500
      xNorm == Div(x * FP - cx, cx)
      yNorm == Div(y * FP - cy, cy)
      r == Sqrt(Mul(xNorm, xNorm) + Mul(yNorm, yNorm))
      scale == FP - Mul(k, Mul(r, r))
  IN [x |-> Round(Mul(Mul(xNorm, scale), cx) + cx),
      y |-> Round(Mul(Mul(yNorm, scale), cy) + cy)]

\* Math.round(xNorm * scale * cx + cx) and Math.round(yNorm * scale * cy + cy)
\* for the output pixel (x, y)
BarrelSample(x, y, w, h, intensity) ==
  LET k == Mul(100, intensity)
      cx == w * 500
      cy == h * 500
      xNorm == Div(x * FP - cx, cx)
      yNorm == Div(y * FP - cy, cy)
      r == Sqrt(Mul(xNorm, xNorm) + Mul(yNorm, yNorm))
      rDistorted == Mul(r, FP + Mul(k, Mul(r, r)))
      scale == IF r = 0 THEN FP ELSE Div(rDistorted, r)
  IN [x |-> Round(Mul(Mul(xNorm, scale), cx) + cx),
      y |-> Round(Mul(Mul(yNorm, scale), cy) + cy)]

\* srcX and srcY for the output pixel (x, y)
BarrelSrc(x, y, w, h, intensity) ==
  [x |-> clamp(BarrelSample(x, y, w, h, intensity).x, 0, w - 1),
   y |-> clamp(BarrelSample(x, y, w, h, intensity).y, 0, h - 1)]

\* the stage with the alpha of the source pixel copied like R, G and B
applyBarrelDistortionKeepAlpha(data, w, h, intensity) ==
  [i \in DOMAIN data |->
     LET s == BarrelSrc(PixX(i, w), PixY(i, w), w, h, intensity)
     IN data[idx(s.x, s.y, w, Chan(i))]]

\* Step 9
applyBarrelDistortion(data, w, h, intensity) ==
  [i \in DOMAIN data |->
     IF Chan(i) = 3 THEN Max255
     ELSE LET s == BarrelSrc(PixX(i, w), PixY(i, w), w, h, intensity)
          IN data[idx(s.x, s.y, w, Chan(i))]]

\* ------------------------------------------------------------------------
\* Date stamp.  A text is a sequence of one-character strings; an absent
\* customText is NoText.
\* ------------------------------------------------------------------------
NoText == << "undefined" >>

Digit(d) == << "0", "1", "2", "3", "4", "5", "6", "7", "8", "9" >>[d + 1]

RECURSIVE String(_)
\* String(n) for a natural number n
String(n) == IF n < 10 THEN << Digit(n) >>
             ELSE Append(String(n \div 10), Digit(n % 10))

RECURSIVE padStart(_, _, _)
padStart(str, targetLength, fill) ==
  IF Len(str) >= targetLength THEN str
  ELSE padStart(<< fill >> \o str, targetLength, fill)

\* the generator drawing the day from 1..31
RandomDateDay31(rng) ==
  LET d1 == MathRandom(rng)
      d2 == MathRandom(d1.rng)
      d3 == MathRandom(d2.rng)
      year == 2001 + Floor(d1.value * 6)
      month == 1 + Floor(d2.value * 12)
      day == 1 + Floor(d3.value * 31)
  IN [text |-> padStart(String(month), 2, "0") \o << "/" >>
               \o padStart(String(day), 2, "0") \o << "/" >> \o String(year),
      rng |-> d3.rng]

\* the generator of a random 2000s date: three draws, year first
RandomDate(rng) ==
  LET d1 == MathRandom(rng)
      d2 == MathRandom(d1.rng)
      d3 == MathRandom(d2.rng)
      year == 2001 + Floor(d1.value * 6)
      month == 1 + Floor(d2.value * 12)
      day == 1 + Floor(d3.value * 28)
  IN [text |-> padStart(String(month), 2, "0") \o << "/" >>
               \o padStart(String(day), 2, "0") \o << "/" >> \o String(year),
      rng |-> d3.rng]

\* Step 10: the image with the text drawn over it
addDateStamp(image, customText, rng) ==
  LET gen == RandomDate(rng)
      text == IF customText # NoText THEN customText ELSE gen.text
  IN [image |-> [image EXCEPT !.stamp = Append(image.stamp, text)],
      rng |-> IF customText # NoText THEN rng ELSE gen.rng]

\* ------------------------------------------------------------------------
\* Inputs
\* ------------------------------------------------------------------------
Levels == << 255, 5, 128, 200, 0, 64 >>

\* Synthetic photo: pattern 1 is an opaque grey ramp that puts a highlight
\* (255) next to a near-black pixel (5); the other patterns are coloured and
\* partly transparent.
TestImage(w, h, p) ==
  [w |-> w, h |-> h,
   bytes |-> [i \in 1..(w * h * 4) |->
                IF p = 1
                THEN (IF Chan(i) = 3 THEN 255 ELSE Levels[(((i - 1) \div 4) % 6) + 1])
                ELSE Levels[((p * ((i - 1) \div 4) + Chan(i) + p - 1) % 6) + 1]],
   stamp |-> << >>]

TrackedImages ==
  {TestImage(w, h, p) : w \in 1..MaxSide, h \in 1..MaxSide, p \in 1..MaxPattern}

\* photos whose pixels are not tracked: exactly 2 MP, just above, 2.08 MP, 12 MP
LargeShapes == {<<2000, 1000>>, <<2000, 1001>>, <<1600, 1300>>, <<4000, 3000>>}

LargeImages ==
  {[w |-> s[1], h |-> s[2], bytes |-> << >>, stamp |-> << >>] : s \in LargeShapes}

\* intensity values (fixed point), inside and outside the nominal [0,1]
Intensities == {-2000, -1000, 0, 300, 769, 1000, 3000}

\* an intensity far outside the nominal range, tried on the large photos
HugeIntensity == 100 * FP

CustomText == << "Y", "2", "K" >>

OutputQualities == {85, 120}

\* stream of the random source for a seed; the value 0 occurs in it
Stream(seed) ==
  [j \in 1..11 |-> IF j = seed THEN 0 ELSE (seed * 389 + j * 617) % FP]

Seeds == 1..MaxSeed

OptionValues(intensities) ==
  [intensity : intensities, addDateStamp : BOOLEAN,
   dateStampText : {NoText, CustomText}, outputQuality : OutputQualities]

\* ------------------------------------------------------------------------
\* applyY2KCameraEffect as a state machine: one step per statement group
\* ------------------------------------------------------------------------
VARIABLES
  sourceImage,   \* the SkImage passed in
  options,       \* the Y2KOptions, defaults resolved
  image,         \* local variable image
  px,            \* local variable px
  rng,           \* state of Math.random
  pc,            \* index in PipelineOrder of the next statement group
  status,        \* "running", "returned" or "threw"
  trace,         \* stages called so far, in call order
  early,         \* stages that returned at their parameter guard, before any write
  surfaces,      \* extents of the surfaces drawn by drawImageToSurface
  encodes,       \* quality argument and outcome of every codec round trip
  stageOut,      \* the floating-point buffer written by the latest stage
  call,          \* a direct call of one stage function: its name and arguments
  ret,           \* what that call returned
  result,        \* useY2KCamera: state result
  processing,    \* useY2KCamera: state processing
  error,         \* useY2KCamera: state error
  requestIdRef,  \* useY2KCamera: requestIdRef.current
  calls,         \* the processImage calls made so far, with their locals
  saved,         \* the images saveResult has written
  photos,        \* usePhotoStorage: state photos
  isLoading,     \* usePhotoStorage: state isLoading
  closurePhotos, \* photos as captured by the callbacks of the last render
  storage,       \* AsyncStorage: the value under '@photos_metadata'
  files,         \* ids of the photos whose file exists in the photos directory
  clock,         \* the latest value Date.now() returned
  ops,           \* the calls of the storage hook made so far, with their locals
  kept,          \* ids of the photos saved with their metadata written and
                 \* not handed to deletePhoto or cleared since
  failed,        \* a storage or file-system call of the hook has failed
  onboardingKey, \* AsyncStorage: the value under '@has_completed_onboarding'
  hasCompletedOnboarding, \* MainApp: state hasCompletedOnboarding
  appIsLoading,  \* MainApp: state isLoading
  check,         \* the checkOnboardingStatus call of MainApp's mount effect
  imports,       \* the handleImportPhotos calls made so far, with their locals
  completions    \* the completeOnboarding calls made so far

vars == << sourceImage, options, image, px, rng, pc, status, trace, early,
           surfaces, encodes, stageOut, call, ret,
           result, processing, error, requestIdRef, calls, saved,
           photos, isLoading, closurePhotos, storage, files, clock, ops,
           kept, failed, onboardingKey, hasCompletedOnboarding, appIsLoading,
           check, imports, completions >>

\* the variables of the hook
hookVars == << result, processing, error, requestIdRef, calls, saved >>

\* the variables of the photo storage hook
storeVars == << photos, isLoading, closurePhotos, storage, files, clock, ops,
                kept, failed >>

\* the variables of MainApp and GetStartedScreen
onboardVars == << onboardingKey, hasCompletedOnboarding, appIsLoading, check,
                 imports, completions >>

\* the variables of the mobile application
appVars == << storeVars, onboardVars >>

\* the variables of the pipeline run
pipeVars == << sourceImage, options, image, px, rng, pc, status, trace, early,
               surfaces, encodes, stageOut >>

\* the variables the pipeline run does not touch
nonPipeVars == << call, ret, hookVars, appVars >>

\* null where an image is expected
NoImage == [null |-> TRUE]

\* null where a message is expected
NoError == "null"

\* the hook as useState and useRef initialise it
NoHook ==
  /\ result = NoImage
  /\ processing = FALSE
  /\ error = NoError
  /\ requestIdRef = 0
  /\ calls = << >>
  /\ saved = {}

\* the mobile application is not mounted
NoApp ==
  /\ photos = << >>
  /\ isLoading = TRUE
  /\ closurePhotos = << >>
  /\ storage = [state |-> "null", json |-> << >>]
  /\ files = {}
  /\ clock = 0
  /\ ops = << >>
  /\ kept = {}
  /\ failed = FALSE
  /\ onboardingKey = "null"
  /\ hasCompletedOnboarding = FALSE
  /\ appIsLoading = TRUE
  /\ check = [at |-> "none", value |-> "null", firstRun |-> FALSE]
  /\ imports = << >>
  /\ completions = << >>

\* no stage function is being called directly
NoCall == call = [fn |-> "none"] /\ ret = [done |-> FALSE]

\* no pipeline is running
NoPipeline ==
  /\ sourceImage = TestImage(1, 1, 1)
  /\ options = [intensity |-> FP, addDateStamp |-> FALSE,
                dateStampText |-> NoText, outputQuality |-> 85]
  /\ image = sourceImage
  /\ px = [data |-> << >>, width |-> 0, height |-> 0]
  /\ rng = [stream |-> Stream(1), pos |-> 1]
  /\ pc = 1
  /\ status = "idle"
  /\ trace = << >>
  /\ early = {}
  /\ surfaces = << >>
  /\ encodes = << >>
  /\ stageOut = << >>

\* the stages in the order of the step numbers of the comments (8 before 9)
PipelineOrderByStepNumber ==
  << "reduceResolution", "applyCoolCast", "adjustSaturation", "adjustVibrance",
     "reduceDynamicRange", "reduceLocalContrast", "applyBloomEffect",
     "addChromaticAberration", "applyOversharpening", "addDigitalNoise",
     "applyJpegArtifacts", "applyBarrelDistortion", "drawImageToSurface",
     "addDateStamp" >>

\* the stages in the order of the statements of applyY2KCameraEffect
PipelineOrder ==
  << "reduceResolution", "applyCoolCast", "adjustSaturation", "adjustVibrance",
     "reduceDynamicRange", "reduceLocalContrast", "applyBloomEffect",
     "addChromaticAberration", "applyOversharpening", "addDigitalNoise",
     "applyBarrelDistortion", "applyJpegArtifacts", "drawImageToSurface",
     "addDateStamp" >>

\* the width read from the working image instead of the source
originalWOfWorkingImage == image.w

originalW == sourceImage.w

originalH == sourceImage.h

intensity == options.intensity

\* intensity argument of reduceResolution
ReduceIntensity(i) == Mul(i, 20)

\* BloomOptions with the caller's intensity handed on
BloomOptsCallerIntensity(i) ==
  [intensity |-> i,
   highlightThreshold |-> 150 * FP,
   bloomStrength |-> Mul(i, 800),
   bloomRadius |-> Mul(i, 10),
   shadowCrushStrength |-> Mul(i, 500),
   shadowCrushRadius |-> Mul(i, 1)]

\* BloomOptions built by the orchestrator
BloomOpts(i) ==
  [intensity |-> 800,
   highlightThreshold |-> 150 * FP,
   bloomStrength |-> Mul(i, 800),
   bloomRadius |-> Mul(i, 10),
   shadowCrushStrength |-> Mul(i, 500),
   shadowCrushRadius |-> Mul(i, 1)]

\* the pipeline intensity handed on as it is
SharpenIntensityPlain(i) == i

\* intensity argument of applyOversharpening
SharpenIntensity(i) == Mul(i, 1300)

\* the pipeline with the codec round trip run at options.outputQuality
applyY2KCameraEffectWithQuality(src, opts, rng0, codec) ==
  LET i == opts.intensity
      r1 == reduceResolution(src, ReduceIntensity(i))
      d2 == Arr(applyCoolCast(imageToPixels(r1.image).data, i))
      d3 == Arr(adjustSaturation(d2, Mul(i, 1300)))
      d3b == Arr(adjustVibrance(d3, Mul(i, 1300)))
      d4 == Arr(reduceDynamicRange(d3b, i))
      w == r1.image.w
      h == r1.image.h
      img4 == pixelsToImage(d4, w, h)
      img4b == reduceLocalContrast(img4, Mul(i, FP))
      img5 == applyBloomEffect(img4b, BloomOpts(i))
      d5b == Arr(addChromaticAberration(imageToPixels(img5).data, w, h, i))
      img5b == pixelsToImage(d5b, w, h)
      img6 == applyOversharpening(img5b, SharpenIntensity(i))
      n7 == addDigitalNoise(imageToPixels(img6).data, i, rng0)
      d9 == Arr(applyBarrelDistortion(Arr(n7.data), w, h, i))
      img9 == pixelsToImage(d9, w, h)
      img8 == IF codec = "ok" THEN JpegRoundTrip(img9, opts.outputQuality) ELSE img9
      r10 == drawImageToSurface(img8, src.w, src.h)
      r11 == IF opts.addDateStamp
             THEN addDateStamp(r10.image, opts.dateStampText, n7.rng)
             ELSE [image |-> r10.image, rng |-> n7.rng]
  IN IF ~r1.ok
     THEN [ok |-> FALSE, image |-> src, rng |-> rng0,
           trace |-> SubSeq(PipelineOrder, 1, 1)]
     ELSE IF ~r10.ok
     THEN [ok |-> FALSE, image |-> img8, rng |-> n7.rng,
           trace |-> SubSeq(PipelineOrder, 1, 13)]
     ELSE [ok |-> TRUE, image |-> r11.image, rng |-> r11.rng,
           trace |-> SubSeq(PipelineOrder, 1, IF opts.addDateStamp THEN 14 ELSE 13)]

\* applyY2KCameraEffect as a function of its arguments, of the state of
\* Math.random at the call and of the outcome of the codec round trip: the
\* statements of the function body composed in order.  The result holds the
\* returned image (ok) or the stage that threw, the stages called and the state
\* Math.random is left in.
applyY2KCameraEffect(src, opts, rng0, codec) ==
  LET i == opts.intensity
      r1 == reduceResolution(src, ReduceIntensity(i))
      d2 == Arr(applyCoolCast(imageToPixels(r1.image).data, i))
      d3 == Arr(adjustSaturation(d2, Mul(i, 1300)))
      d3b == Arr(adjustVibrance(d3, Mul(i, 1300)))
      d4 == Arr(reduceDynamicRange(d3b, i))
      w == r1.image.w
      h == r1.image.h
      img4 == pixelsToImage(d4, w, h)
      img4b == reduceLocalContrast(img4, Mul(i, FP))
      img5 == applyBloomEffect(img4b, BloomOpts(i))
      d5b == Arr(addChromaticAberration(imageToPixels(img5).data, w, h, i))
      img5b == pixelsToImage(d5b, w, h)
      img6 == applyOversharpening(img5b, SharpenIntensity(i))
      n7 == addDigitalNoise(imageToPixels(img6).data, i, rng0)
      d9 == Arr(applyBarrelDistortion(Arr(n7.data), w, h, i))
      img9 == pixelsToImage(d9, w, h)
      img8 == applyJpegArtifacts(img9, i, codec)
      r10 == drawImageToSurface(img8, src.w, src.h)
      r11 == IF opts.addDateStamp
             THEN addDateStamp(r10.image, opts.dateStampText, n7.rng)
             ELSE [image |-> r10.image, rng |-> n7.rng]
  IN IF ~r1.ok
     THEN [ok |-> FALSE, image |-> src, rng |-> rng0,
           trace |-> SubSeq(PipelineOrder, 1, 1)]
     ELSE IF ~r10.ok
     THEN [ok |-> FALSE, image |-> img8, rng |-> n7.rng,
           trace |-> SubSeq(PipelineOrder, 1, 13)]
     ELSE [ok |-> TRUE, image |-> r11.image, rng |-> r11.rng,
           trace |-> SubSeq(PipelineOrder, 1, IF opts.addDateStamp THEN 14 ELSE 13)]

InitWith(images, intensities) ==
  /\ sourceImage \in images
  /\ options \in OptionValues(intensities)
  /\ image = sourceImage
  /\ px = [data |-> << >>, width |-> 0, height |-> 0]
  /\ rng \in {[stream |-> Stream(seed), pos |-> 1] : seed \in Seeds}
  /\ pc = 1
  /\ status = "running"
  /\ trace = << >>
  /\ early = {}
  /\ surfaces = << >>
  /\ encodes = << >>
  /\ stageOut = << >>
  /\ NoCall
  /\ NoHook
  /\ NoApp

Init ==
  \/ InitWith(TrackedImages, Intensities)
  \/ InitWith(LargeImages, Intensities \cup {HugeIntensity})

At(stage) ==
  /\ status = "running"
  /\ pc <= Len(PipelineOrder)
  /\ PipelineOrder[pc] = stage

Called(stage) ==
  /\ pc' = pc + 1
  /\ trace' = Append(trace, stage)

\* Step 1: let image = reduceResolution(sourceImage, intensity * 0.02)
Reduce ==
  /\ At("reduceResolution")
  /\ LET r == reduceResolution(sourceImage, ReduceIntensity(intensity))
     IN /\ surfaces' = IF r.drew THEN Append(surfaces, << r.image.w, r.image.h >>)
                       ELSE surfaces
        /\ IF r.ok
           THEN /\ image' = r.image
                /\ Called("reduceResolution")
                /\ status' = status
           ELSE /\ status' = "threw"
                /\ trace' = Append(trace, "reduceResolution")
                /\ UNCHANGED << image, pc >>
  /\ UNCHANGED << sourceImage, options, px, rng, early, encodes, stageOut >>
  /\ UNCHANGED nonPipeVars

\* Step 2: px = imageToPixels(image); applyCoolCast(px.data, ...)
CoolCast ==
  /\ At("applyCoolCast")
  /\ px' = [imageToPixels(image) EXCEPT
              !.data = applyCoolCast(imageToPixels(image).data, intensity)]
  /\ stageOut' = px'.data
  /\ Called("applyCoolCast")
  /\ UNCHANGED << sourceImage, options, image, rng, status, early, surfaces, encodes >>
  /\ UNCHANGED nonPipeVars

\* Step 3: adjustSaturation(px.data, ..., intensity * 1.3)
Saturation ==
  /\ At("adjustSaturation")
  /\ px' = [px EXCEPT !.data = adjustSaturation(px.data, Mul(intensity, 1300))]
  /\ stageOut' = px'.data
  /\ Called("adjustSaturation")
  /\ UNCHANGED << sourceImage, options, image, rng, status, early, surfaces, encodes >>
  /\ UNCHANGED nonPipeVars

\* Step 3: adjustVibrance(px.data, ..., intensity * 1.3)
Vibrance ==
  /\ At("adjustVibrance")
  /\ px' = [px EXCEPT !.data = adjustVibrance(px.data, Mul(intensity, 1300))]
  /\ stageOut' = px'.data
  /\ early' = IF VibranceReturnsEarly(Mul(intensity, 1300))
              THEN early \cup {"adjustVibrance"} ELSE early
  /\ Called("adjustVibrance")
  /\ UNCHANGED << sourceImage, options, image, rng, status, surfaces, encodes >>
  /\ UNCHANGED nonPipeVars

\* Step 4: reduceDynamicRange(px.data, ...); image = pixelsToImage(px...)
DynamicRange ==
  /\ At("reduceDynamicRange")
  /\ px' = [px EXCEPT !.data = reduceDynamicRange(px.data, intensity)]
  /\ stageOut' = px'.data
  /\ image' = pixelsToImage(px'.data, px.width, px.height)
  /\ Called("reduceDynamicRange")
  /\ UNCHANGED << sourceImage, options, rng, status, early, surfaces, encodes >>
  /\ UNCHANGED nonPipeVars

\* Step 4b: image = reduceLocalContrast(image, intensity * 1.0)
LocalContrast ==
  /\ At("reduceLocalContrast")
  /\ stageOut' = Arr(reduceLocalContrastData(image, Mul(intensity, FP)))
  /\ image' = pixelsToImage(stageOut', image.w, image.h)
  /\ Called("reduceLocalContrast")
  /\ UNCHANGED << sourceImage, options, px, rng, status, early, surfaces, encodes >>
  /\ UNCHANGED nonPipeVars

\* Step 5: image = applyBloomEffect(image, {...})
Bloom ==
  /\ At("applyBloomEffect")
  /\ stageOut' = Arr(applyBloomEffectData(image, BloomOpts(intensity)))
  /\ image' = pixelsToImage(stageOut', image.w, image.h)
  /\ Called("applyBloomEffect")
  /\ UNCHANGED << sourceImage, options, px, rng, status, early, surfaces, encodes >>
  /\ UNCHANGED nonPipeVars

\* Step 5b: px = imageToPixels(image); addChromaticAberration(...);
\* image = pixelsToImage(...)
Chromatic ==
  /\ At("addChromaticAberration")
  /\ px' = [imageToPixels(image) EXCEPT
              !.data = addChromaticAberration(imageToPixels(image).data,
                                              image.w, image.h, intensity)]
  /\ stageOut' = px'.data
  /\ image' = pixelsToImage(px'.data, px'.width, px'.height)
  /\ early' = IF ChromaShift(intensity) < 1
              THEN early \cup {"addChromaticAberration"} ELSE early
  /\ Called("addChromaticAberration")
  /\ UNCHANGED << sourceImage, options, rng, status, surfaces, encodes >>
  /\ UNCHANGED nonPipeVars

\* Step 6: image = applyOversharpening(image, intensity * 1.3)
Sharpen ==
  /\ At("applyOversharpening")
  /\ stageOut' = Arr(applyOversharpeningData(image, SharpenIntensity(intensity)))
  /\ image' = pixelsToImage(stageOut', image.w, image.h)
  /\ Called("applyOversharpening")
  /\ UNCHANGED << sourceImage, options, px, rng, status, early, surfaces, encodes >>
  /\ UNCHANGED nonPipeVars

\* Step 7: px = imageToPixels(image); addDigitalNoise(px.data, ...)
Noise ==
  /\ At("addDigitalNoise")
  /\ LET n == addDigitalNoise(imageToPixels(image).data, intensity, rng)
     IN /\ px' = [imageToPixels(image) EXCEPT !.data = n.data]
        /\ rng' = n.rng
  /\ stageOut' = px'.data
  /\ Called("addDigitalNoise")
  /\ UNCHANGED << sourceImage, options, image, status, early, surfaces, encodes >>
  /\ UNCHANGED nonPipeVars

\* Step 9: px.data = applyBarrelDistortion(...); image = pixelsToImage(...)
Barrel ==
  /\ At("applyBarrelDistortion")
  /\ px' = [px EXCEPT
              !.data = applyBarrelDistortion(px.data, px.width, px.height, intensity)]
  /\ stageOut' = px'.data
  /\ image' = pixelsToImage(px'.data, px.width, px.height)
  /\ Called("applyBarrelDistortion")
  /\ UNCHANGED << sourceImage, options, rng, status, early, surfaces, encodes >>
  /\ UNCHANGED nonPipeVars

\* Step 8: image = applyJpegArtifacts(image, intensity); the codec succeeds
\* or fails at encoding or at decoding
Jpeg ==
  /\ At("applyJpegArtifacts")
  /\ \E codec \in CodecOutcomes :
       /\ image' = applyJpegArtifacts(image, intensity, codec)
       /\ encodes' = Append(encodes, [quality |-> JpegQuality(intensity),
                                      outcome |-> codec])
  /\ Called("applyJpegArtifacts")
  /\ UNCHANGED << sourceImage, options, px, rng, status, early, surfaces, stageOut >>
  /\ UNCHANGED nonPipeVars

\* Step 10: image = drawImageToSurface(image, originalW, originalH)
Restore ==
  /\ At("drawImageToSurface")
  /\ LET r == drawImageToSurface(image, originalW, originalH)
     IN /\ surfaces' = Append(surfaces, << originalW, originalH >>)
        /\ IF r.ok
           THEN /\ image' = r.image
                /\ Called("drawImageToSurface")
                /\ status' = status
           ELSE /\ status' = "threw"
                /\ trace' = Append(trace, "drawImageToSurface")
                /\ UNCHANGED << image, pc >>
  /\ UNCHANGED << sourceImage, options, px, rng, early, encodes, stageOut >>
  /\ UNCHANGED nonPipeVars

\* Step 11, addStamp true: image = addDateStamp(image, dateStampText)
DateStamp ==
  /\ At("addDateStamp")
  /\ options.addDateStamp
  /\ LET r == addDateStamp(image, options.dateStampText, rng)
     IN /\ image' = r.image
        /\ rng' = r.rng
  /\ surfaces' = Append(surfaces, << image.w, image.h >>)
  /\ Called("addDateStamp")
  /\ UNCHANGED << sourceImage, options, px, status, early, encodes, stageOut >>
  /\ UNCHANGED nonPipeVars

\* Step 11, addStamp false: the if statement is passed over
SkipDateStamp ==
  /\ At("addDateStamp")
  /\ ~options.addDateStamp
  /\ pc' = pc + 1
  /\ UNCHANGED << sourceImage, options, image, px, rng, status, trace, early,
                  surfaces, encodes, stageOut >>
  /\ UNCHANGED nonPipeVars

\* return image
Return ==
  /\ status = "running"
  /\ pc = Len(PipelineOrder) + 1
  /\ status' = "returned"
  /\ UNCHANGED << sourceImage, options, image, px, rng, pc, trace, early,
                  surfaces, encodes, stageOut >>
  /\ UNCHANGED nonPipeVars

Next ==
  \/ Reduce
  \/ CoolCast
  \/ Saturation
  \/ Vibrance
  \/ DynamicRange
  \/ LocalContrast
  \/ Bloom
  \/ Chromatic
  \/ Sharpen
  \/ Noise
  \/ Barrel
  \/ Jpeg
  \/ Restore
  \/ DateStamp
  \/ SkipDateStamp
  \/ Return

Spec == Init /\ [][Next]_vars

\* Specification for the date generator: every value of the random source
\* occurs at every one of its three draws
DateStreams ==
  {<< v, (v * 7 + 3) % FP, (v * 13 + 5) % FP >> : v \in 0..(FP - 1)}

InitDate ==
  /\ sourceImage = TestImage(1, 1, 1)
  /\ options \in OptionValues({FP})
  /\ image = sourceImage
  /\ px = [data |-> << >>, width |-> 0, height |-> 0]
  /\ rng \in {[stream |-> st, pos |-> 1] : st \in DateStreams}
  /\ pc = 1
  /\ status = "running"
  /\ trace = << >>
  /\ early = {}
  /\ surfaces = << >>
  /\ encodes = << >>
  /\ stageOut = << >>
  /\ NoCall
  /\ NoHook
  /\ NoApp

SpecDate == InitDate /\ [][Next]_vars

\* ------------------------------------------------------------------------
\* Properties
\* ------------------------------------------------------------------------
IsPrefix(s, t) == Len(s) <= Len(t) /\ \A i \in 1..Len(s) : s[i] = t[i]

Last(s) == s[Len(s)]

SourcePixels == sourceImage.w * sourceImage.h

\* C1 (shape invariant): whatever the source extent, intensity and
\* addDateStamp, the image that applyY2KCameraEffect returns has exactly the
\* width and height of the source image.
ShapeInvariant ==
  status = "returned" => image.w = sourceImage.w /\ image.h = sourceImage.h

\* a photo above 2 MP went down and came back, with a date stamp drawn
ShapeWitness ==
  /\ status = "returned"
  /\ SourcePixels > targetPixels
  /\ Len(surfaces) = 3
  /\ surfaces[1] # << sourceImage.w, sourceImage.h >>
  /\ options.addDateStamp
  /\ image.stamp # << >>

\* the stages of the claims that write pixel data
PixelStages ==
  {"applyCoolCast", "adjustSaturation", "adjustVibrance", "reduceDynamicRange",
   "reduceLocalContrast", "applyBloomEffect", "addChromaticAberration",
   "applyOversharpening", "addDigitalNoise", "applyBarrelDistortion"}

\* C2 (clamp invariant): after every stage that writes pixel data, every
\* channel value of the buffer the stage wrote lies in [0,255], for every
\* intensity, also outside [0,1].
ClampInvariant ==
  \A i \in DOMAIN stageOut : 0 <= stageOut[i] /\ stageOut[i] <= Max255

\* a pixel stage ran at an intensity outside [0,1] and its output touches
\* both ends of the range
ClampWitness ==
  /\ trace # << >>
  /\ Last(trace) \in PixelStages
  /\ intensity > FP
  /\ \E i \in DOMAIN stageOut : Chan(i) # 3 /\ stageOut[i] = Max255
  /\ \E i \in DOMAIN stageOut : Chan(i) # 3 /\ stageOut[i] = 0

\* the order of the stages as the specification lists it
ClaimedOrder ==
  << "reduceResolution", "applyCoolCast", "adjustSaturation", "adjustVibrance",
     "reduceDynamicRange", "reduceLocalContrast", "applyBloomEffect",
     "addChromaticAberration", "applyOversharpening", "addDigitalNoise",
     "applyBarrelDistortion", "applyJpegArtifacts", "drawImageToSurface",
     "addDateStamp" >>

AfterReduce == status = "running" /\ pc \in 2..5

\* C4 (downscale factor): for a source above 2,000,000 pixels the first
\* resample step yields round(w*b) x round(h*b), b = 1 - (1 - s) * intensity
\* with the caller's intensity, so a 4000x3000 source at intensity 1.0 enters
\* the pixel stages at about 2,000,000 pixels.
DownscaleFactorClaim ==
  (AfterReduce /\ SourcePixels > targetPixels) =>
     /\ image.w = NewSide(sourceImage.w, SourcePixels, intensity)
     /\ image.h = NewSide(sourceImage.h, SourcePixels, intensity)
     /\ (sourceImage.w = 4000 /\ sourceImage.h = 3000 /\ intensity = FP)
           => image.w * image.h <= targetPixels + targetPixels \div 100

\* C5 as stated (never upscales): for every intensity the pipeline accepts,
\* the working image after reduceResolution is no wider and no higher than
\* the source.
NeverUpscalesClaim ==
  AfterReduce => image.w <= sourceImage.w /\ image.h <= sourceImage.h

\* C5 amended: for every intensity >= 0, whenever reduceResolution returns
\* an image, it is no wider and no higher than the source.
NeverUpscalesNonNegative ==
  (AfterReduce /\ intensity >= 0) =>
     image.w <= sourceImage.w /\ image.h <= sourceImage.h

\* a photo above 2 MP was resampled at a positive intensity and came out smaller
NeverUpscalesWitness ==
  /\ AfterReduce
  /\ intensity > 0
  /\ SourcePixels > targetPixels
  /\ surfaces # << >>
  /\ image.w < sourceImage.w
  /\ image.h < sourceImage.h

\* C6 (resample no-op): a source of at most 2,000,000 pixels comes out of
\* reduceResolution as the very same image: same extent, same content, and
\* no surface was drawn, whatever the intensity.
ResampleNoOp ==
  (AfterReduce /\ SourcePixels <= targetPixels) =>
     image = sourceImage /\ surfaces = << >>

\* a source of exactly 2,000,000 pixels passed the first step at a non-zero
\* intensity
ResampleNoOpWitness ==
  /\ AfterReduce
  /\ SourcePixels = targetPixels
  /\ intensity # 0
  /\ image = sourceImage

CodecFailed == encodes # << >> /\ Last(encodes).outcome # "ok"

\* C7 (recode-failure resilience): when the encode yields no bytes or the
\* decode yields no image, applyJpegArtifacts hands back the image it was
\* given and nothing is thrown; the run goes on with the restore and
\* date-stamp stages and returns an image.
RecodeFailureResilience ==
  /\ [][(At("applyJpegArtifacts") /\ CodecFailed')
          => (image' = image /\ status' = "running" /\ pc' = pc + 1)]_vars
  /\ [](CodecFailed => status # "threw")
  /\ []((CodecFailed /\ status = "running") => ENABLED (Restore \/ DateStamp
                                                  \/ SkipDateStamp \/ Return))

\* a run whose decode failed on a tracked photo that the codec would have
\* altered has returned, restored and stamped
RecodeFailureWitness ==
  /\ status = "returned"
  /\ CodecFailed
  /\ Last(encodes).outcome = "decodeFailed"
  /\ image.bytes # << >>
  /\ JpegRoundTrip(image, Last(encodes).quality).bytes # image.bytes
  /\ image.stamp # << >>
  /\ Last(trace) = "addDateStamp"

IntensityStages == PixelStages \cup {"applyJpegArtifacts"}

IsDigit(c) == c \in {Digit(d) : d \in 0..9}

DigitVal(c) == CHOOSE d \in 0..9 : Digit(d) = c

\* the number written by the characters from..to of a text of digits
Number(text, from, to) ==
  LET RECURSIVE val(_)
      val(k) == IF k < from THEN 0 ELSE 10 * val(k - 1) + DigitVal(text[k])
  IN val(to)

GeneratedStamp == image.stamp # << >> /\ options.dateStampText = NoText

\* C10 (date stamp formatting): without a dateStampText, whatever the random
\* source returns, the text drawn is a two-digit month 01..12, "/", a
\* two-digit day 01..28, "/" and a four-digit year 2001..2006.
DateStampFormat ==
  GeneratedStamp =>
     LET text == image.stamp[1]
     IN /\ Len(image.stamp) = 1
        /\ Len(text) = 10
        /\ text[3] = "/" /\ text[6] = "/"
        /\ \A k \in {1, 2, 4, 5, 7, 8, 9, 10} : IsDigit(text[k])
        /\ Number(text, 1, 2) \in 1..12
        /\ Number(text, 4, 5) \in 1..28
        /\ Number(text, 7, 10) \in 2001..2006

\* the generator produced the last day of the last month of the last year
DateStampWitness ==
  /\ GeneratedStamp
  /\ image.stamp[1] = << "1", "2", "/", "2", "8", "/", "2", "0", "0", "6" >>

\* every state Math.random can be in at the call of the pipeline
RandomStates ==
  {[stream |-> Stream(seed), pos |-> p] :
     seed \in Seeds, p \in 1..Len(Stream(1))}

\* the returned image is the value of the function for the state Math.random
\* was in at the call
PipelineAgrees ==
  status = "returned" =>
    image = applyY2KCameraEffect(sourceImage, options, [rng EXCEPT !.pos = 1],
                                 Last(encodes).outcome).image

\* C11 (reproducibility without a seed): with addDateStamp = false and
\* intensity = 0 the noise stage writes back exactly the buffer it read, and
\* the image the pipeline returns is the one it returns for every other state
\* of the random source (same image, same options, same codec outcome).
NoSeedReproducible ==
  /\ (trace # << >> /\ Last(trace) = "addDigitalNoise" /\ intensity = 0)
       => stageOut = imageToPixels(image).data
  /\ (status = "returned" /\ intensity = 0 /\ ~options.addDateStamp)
       => \A r \in RandomStates :
            applyY2KCameraEffect(sourceImage, options, r,
                                 Last(encodes).outcome).image = image

\* a run at intensity 0 without stamp returned a tracked photo after the
\* noise stage has drawn from the random source
NoSeedWitness ==
  /\ status = "returned"
  /\ intensity = 0
  /\ ~options.addDateStamp
  /\ image.bytes # << >>
  /\ rng.pos # 1

\* C12 (determinism modulo randomness): a second invocation with the same
\* image and the same options returns the output of the first.  The pipeline
\* takes no random source as argument: the second invocation draws from
\* Math.random in the state the first one left it in.
SameInputsSameOutput ==
  status = "returned" =>
    applyY2KCameraEffect(sourceImage, options, rng,
                         Last(encodes).outcome).image = image

\* the image the sharpen stage was called with: the buffer of the chromatic
\* aberration stage converted by pixelsToImage
SharpenInput == pixelsToImage(px.data, px.width, px.height)

\* value + (value - blurredValue) * amount on R, G, B, clamped; alpha as read
SharpenedBy(img, amount) ==
  LET o == imageToPixels(img).data
      b == imageToPixels(applyGaussianBlur(img, pilRadiusToSigma(1500))).data
  IN Arr([k \in DOMAIN o |->
            IF Chan(k) = 3 THEN o[k]
            ELSE clamp(o[k] + Mul(o[k] - b[k], amount), 0, Max255)])

JustSharpened == trace # << >> /\ Last(trace) = "applyOversharpening"

\* C14 as stated: the sharpen stage of a pipeline run at intensity i writes
\* clamp(value + (value - blurredValue) * 1.5 * i, 0, 255) to every non-alpha
\* channel.
SharpenAmountClaim ==
  JustSharpened => stageOut = SharpenedBy(SharpenInput, Mul(1500, intensity))

\* C14 (sharpening amount, amended): the sharpen stage of a pipeline run at
\* intensity i writes clamp(value + (value - blurredValue) * 1.5 * (1.3 * i),
\* 0, 255) to every non-alpha channel, blurredValue being the same channel of
\* the image blurred at radius 1.5, and leaves alpha as it was.
SharpenAmountPipeline ==
  JustSharpened =>
    stageOut = SharpenedBy(SharpenInput, Mul(1500, Mul(intensity, 1300)))

\* the sharpen stage of a run at intensity 1 changed a channel
SharpenAmountWitness ==
  /\ JustSharpened
  /\ intensity = FP
  /\ \E k \in DOMAIN stageOut :
       Chan(k) # 3 /\ stageOut[k] # imageToPixels(SharpenInput).data[k]

\* ------------------------------------------------------------------------
\* Direct calls of stage functions
\* ------------------------------------------------------------------------
\* applyBloomEffect called twice on one image with options that differ in
\* bloomStrength only (raised > bloomStrength); every parameter is
\* non-negative
BloomStrengths == {0, 100, 150, 800, 1600}

BloomOptionValues ==
  [intensity : {0, 800, FP}, highlightThreshold : {150 * FP},
   bloomStrength : BloomStrengths, bloomRadius : {8, FP},
   shadowCrushStrength : {0, 500, 2500}, shadowCrushRadius : {1, FP}]
  \cup
  [intensity : {HugeIntensity}, highlightThreshold : {150 * FP},
   bloomStrength : {0, 100}, bloomRadius : {8},
   shadowCrushStrength : {0}, shadowCrushRadius : {1}]

BloomCalls ==
  {[fn |-> "applyBloomEffect", image |-> img, opts |-> o, raised |-> b] :
     img \in TrackedImages, o \in BloomOptionValues,
     b \in BloomStrengths}

InitBloom ==
  /\ NoPipeline
  /\ NoHook
  /\ NoApp
  /\ call \in {c \in BloomCalls :
                 /\ c.raised > c.opts.bloomStrength
                 /\ c.opts.intensity = HugeIntensity => c.raised <= 150}
  /\ ret = [done |-> FALSE]

CallBloom ==
  /\ call.fn = "applyBloomEffect"
  /\ ~ret.done
  /\ ret' = [done |-> TRUE,
             low |-> applyBloomEffect(call.image, call.opts),
             high |-> applyBloomEffect(call.image,
                                       [call.opts EXCEPT !.bloomStrength = call.raised])]
  /\ UNCHANGED << call, pipeVars, hookVars, appVars >>

SpecBloom == InitBloom /\ [][CallBloom]_vars

\* 0.299 R + 0.587 G + 0.114 B of the pixel based at b, times 1000
Luminance1000(bytes, b) == 299 * bytes[b] + 587 * bytes[b + 1] + 114 * bytes[b + 2]

\* the pixels of the image of the call whose highlight mask is above 0
HighlightPixels ==
  {b \in DOMAIN call.image.bytes :
     /\ Chan(b) = 0
     /\ HighlightMask(imageToPixels(call.image).data, b,
                      call.opts.highlightThreshold) > 0}

BloomNeverLowers ==
  \A b \in HighlightPixels :
    Luminance1000(ret.high.bytes, b) >= Luminance1000(ret.low.bytes, b)

\* the floor min-black of the shadow stage, 5 * intensity * (2 - shadowCrushStrength)
BlackLiftOf(opts) == Mul(5 * opts.intensity, 2 * FP - opts.shadowCrushStrength)

ChromaSides == {1, 2, 3, MaxChromaSide}

ChromaIntensities == {-1000, 0, 300, 500, 769, 1000, 1500, 2000, 2200, 3000}

ChromaCalls ==
  {[fn |-> "addChromaticAberration",
    data |-> Arr(imageToPixels(TestImage(w, h, p)).data),
    w |-> w, h |-> h, intensity |-> i] :
     w \in ChromaSides, h \in ChromaSides, p \in 1..MaxPattern,
     i \in ChromaIntensities}

InitChroma ==
  /\ NoPipeline
  /\ NoHook
  /\ NoApp
  /\ call \in ChromaCalls
  /\ ret = [done |-> FALSE]

CallChroma ==
  /\ call.fn = "addChromaticAberration"
  /\ ~ret.done
  /\ ret' = [done |-> TRUE,
             data |-> Arr(addChromaticAberration(call.data, call.w, call.h,
                                                 call.intensity))]
  /\ UNCHANGED << call, pipeVars, hookVars, appVars >>

SpecChroma == InitChroma /\ [][CallChroma]_vars

ChromaReturned == call.fn = "addChromaticAberration" /\ ret.done

\* (1 - 0.5 * intensity) * original + 0.5 * intensity * sample for the R or B
\* entry at position k, the sample read from the buffer the call was given
ChromaBlend(k) ==
  LET shift == Floor(2 * call.intensity)
      x == PixX(k, call.w)
      y == PixY(k, call.w)
      sample == IF Chan(k) = 0
                THEN call.data[idx(x - shift, y - shift, call.w, 0)]
                ELSE call.data[idx(x + shift, y + shift, call.w, 2)]
  IN Mul(call.data[k], FP - Mul(500, call.intensity))
     + Mul(sample, Mul(500, call.intensity))

\* the entry at position k is outside the frame the stage writes
ChromaOutside(k) ==
  LET shift == Floor(2 * call.intensity)
      x == PixX(k, call.w)
      y == PixY(k, call.w)
  IN \/ Chan(k) \in {1, 3}
     \/ Chan(k) = 0 /\ (x < shift \/ y < shift)
     \/ Chan(k) = 2 /\ (x + shift >= call.w \/ y + shift >= call.h)

\* C15 as stated: below shift 1 the buffer is unchanged; from shift 1 on the
\* entries outside the frame are unchanged and every changed value is the
\* blend of the original and the sample of the pre-stage copy.
ChromaFrameClaim ==
  ChromaReturned =>
    IF Floor(2 * call.intensity) < 1 THEN ret.data = call.data
    ELSE \A k \in DOMAIN call.data :
           /\ ChromaOutside(k) => ret.data[k] = call.data[k]
           /\ ret.data[k] # call.data[k] => ret.data[k] = ChromaBlend(k)

\* C15 (chromatic aberration frame, amended): below shift 1 the buffer is
\* unchanged; from shift 1 on G, alpha, R at x < shift or y < shift and B at
\* x + shift >= w or y + shift >= h are unchanged, and every other R and B
\* value is the blend of the original and the sample of the pre-stage copy,
\* clamped to [0,255].
ChromaFrameClamped ==
  ChromaReturned =>
    IF Floor(2 * call.intensity) < 1 THEN ret.data = call.data
    ELSE \A k \in DOMAIN call.data :
           IF ChromaOutside(k) THEN ret.data[k] = call.data[k]
           ELSE ret.data[k] = clamp(ChromaBlend(k), 0, Max255)

\* a call at shift 1 that changed a red value whose sample pixel lies inside
\* the written frame as well
ChromaFrameWitness ==
  /\ ChromaReturned
  /\ Floor(2 * call.intensity) = 1
  /\ \E k \in DOMAIN call.data :
       /\ Chan(k) = 0
       /\ PixX(k, call.w) >= 2
       /\ PixY(k, call.w) >= 2
       /\ ret.data[k] # call.data[k]
       /\ ret.data[idx(PixX(k, call.w) - 1, PixY(k, call.w) - 1, call.w, 0)]
            # call.data[idx(PixX(k, call.w) - 1, PixY(k, call.w) - 1, call.w, 0)]

\* applyBarrelDistortion called on the buffer of a photo; the buffers of the
\* large photos are not tracked
BarrelSides == {1, 2, 3, MaxBarrelSide}

BarrelLargeShapes == {<< 640, 480 >>, << 1200, 900 >>, << 1201, 901 >>}

BarrelIntensities == {-3000, -1000, 0, 300, FP, 3000}

BarrelCalls ==
  {[fn |-> "applyBarrelDistortion",
    data |-> Arr(imageToPixels(TestImage(w, h, p)).data),
    w |-> w, h |-> h, intensity |-> i] :
     w \in BarrelSides, h \in BarrelSides, p \in 1..MaxPattern,
     i \in BarrelIntensities}
  \cup
  {[fn |-> "applyBarrelDistortion", data |-> << >>,
    w |-> s[1], h |-> s[2], intensity |-> i] :
     s \in BarrelLargeShapes, i \in BarrelIntensities}

InitBarrel ==
  /\ NoPipeline
  /\ NoHook
  /\ NoApp
  /\ call \in BarrelCalls
  /\ ret = [done |-> FALSE]

CallBarrel ==
  /\ call.fn = "applyBarrelDistortion"
  /\ ~ret.done
  /\ ret' = [done |-> TRUE,
             data |-> Arr(applyBarrelDistortion(call.data, call.w, call.h,
                                                call.intensity))]
  /\ UNCHANGED << call, pipeVars, hookVars, appVars >>

SpecBarrel == InitBarrel /\ [][CallBarrel]_vars

BarrelReturned == call.fn = "applyBarrelDistortion" /\ ret.done

\* the source pixel of the output pixel (x, y) of the call
SrcOf(x, y) == BarrelSrc(x, y, call.w, call.h, call.intensity)

Corners ==
  {<< x, y >> : x \in {0, call.w - 1}, y \in {0, call.h - 1}}

Centre == << call.w \div 2, call.h \div 2 >>

\* pixels looked at on every photo: corners, centre, the neighbours of the
\* corners and the middles of the edges
Probes ==
  Corners \cup {Centre}
  \cup {<< x, y >> : x \in {Min2(1, call.w - 1), Max2(0, call.w - 2)},
                      y \in {Min2(1, call.h - 1), Max2(0, call.h - 2)}}
  \cup {<< call.w \div 2, 0 >>, << call.w \div 2, call.h - 1 >>,
        << 0, call.h \div 2 >>, << call.w - 1, call.h \div 2 >>}

InsideImage(s) == s.x \in 0..(call.w - 1) /\ s.y \in 0..(call.h - 1)

\* C16 (lens distortion bounds): the output buffer has the length of the
\* input, every output alpha is 255, and R, G, B of every output pixel are
\* those of a source pixel whose coordinates lie inside the image.
BarrelBounds ==
  BarrelReturned =>
    /\ Len(ret.data) = Len(call.data)
    /\ \A k \in DOMAIN ret.data :
         IF Chan(k) = 3 THEN ret.data[k] = Max255
         ELSE LET s == SrcOf(PixX(k, call.w), PixY(k, call.w))
              IN /\ InsideImage(s)
                 /\ ret.data[k] = call.data[idx(s.x, s.y, call.w, Chan(k))]
    /\ \A p \in Probes : InsideImage(SrcOf(p[1], p[2]))

\* a call on a buffer with an alpha other than 255 in which the rounded sample
\* position of a pixel lies outside the image
BarrelBoundsWitness ==
  /\ BarrelReturned
  /\ \E k \in DOMAIN call.data : Chan(k) = 3 /\ call.data[k] # Max255
  /\ \E k \in DOMAIN call.data :
       ~InsideImage(BarrelSample(PixX(k, call.w), PixY(k, call.w),
                                 call.w, call.h, call.intensity))

Undisplaced(p) == SrcOf(p[1], p[2]) = [x |-> p[1], y |-> p[2]]

\* C17 as stated: at intensity 1.0 every corner pixel is sampled from a pixel
\* other than itself and the centre pixel from itself.
CornerDisplacementClaim ==
  (BarrelReturned /\ call.intensity = FP) =>
    /\ \A p \in Corners : ~Undisplaced(p)
    /\ Undisplaced(Centre)

\* C17 (barrel displacement at corners, amended): at intensity 1.0 the centre
\* pixel is sampled from itself and so is every corner pixel, whose sample
\* position lies on or outside the border and is clamped back to the corner.
CornersClampToThemselves ==
  (BarrelReturned /\ call.intensity = FP) =>
    /\ \A p \in Corners : Undisplaced(p)
    /\ Undisplaced(Centre)

\* a call at intensity 1.0 on a photo in which the sample position of a
\* corner lies outside the image while the neighbour of the corner at (1, 1)
\* is sampled from another pixel
CornersWitness ==
  /\ BarrelReturned
  /\ call.intensity = FP
  /\ call.w > 2
  /\ call.h > 2
  /\ ~InsideImage(BarrelSample(0, 0, call.w, call.h, call.intensity))
  /\ ~Undisplaced(<< 1, 1 >>)

\* ------------------------------------------------------------------------
\* useY2KCamera: processImage, reset and saveResult.  A processImage call
\* runs up to its first await when it is made, from the settling of
\* loadSkImage up to the setTimeout when the image has loaded, and from the
\* timer callback to its return when the timer fires.
\* ------------------------------------------------------------------------
HookOptions(i, stamp) ==
  [intensity |-> i, addDateStamp |-> stamp, dateStampText |-> NoText,
   outputQuality |-> 85]

\* a photo whose pixels are not tracked
Photo(w, h) == [w |-> w, h |-> h, bytes |-> << >>, stamp |-> << >>]

\* ProcessImageInput values: skImage is an image or null; bytes and uri are
\* absent, the encoding of a photo, or data that is no image
ProcessImageInputs ==
  {[skImage |-> NoImage, bytes |-> "absent", uri |-> "absent",
    options |-> HookOptions(FP, FALSE)],
   [skImage |-> Photo(640, 480), bytes |-> "garbage", uri |-> "absent",
    options |-> HookOptions(300, TRUE)],
   [skImage |-> Photo(4000, 3000), bytes |-> "absent", uri |-> "absent",
    options |-> HookOptions(HugeIntensity, FALSE)],
   [skImage |-> NoImage, bytes |-> "encoded", uri |-> "absent",
    options |-> HookOptions(FP, FALSE)],
   [skImage |-> NoImage, bytes |-> "garbage", uri |-> "encoded",
    options |-> HookOptions(FP, FALSE)],
   [skImage |-> NoImage, bytes |-> "absent", uri |-> "encoded",
    options |-> HookOptions(FP, FALSE)],
   [skImage |-> NoImage, bytes |-> "absent", uri |-> "garbage",
    options |-> HookOptions(FP, FALSE)]}

\* Skia.Image.MakeImageFromEncoded: null for data that is no image
MakeImageFromEncoded(content) ==
  IF content = "encoded" THEN Photo(800, 600) ELSE NoImage

\* the message of the error loadSkImage throws for the input, if it throws
LoadErrorMessage(input) ==
  IF input.bytes # "absent" THEN "Failed to decode image from bytes"
  ELSE IF input.uri # "absent" THEN "Failed to decode image from URI"
  ELSE "processImage requires at least one of: uri, bytes, or skImage"

\* loadSkImage accepting whatever the decoder returns
loadSkImageLenient(input) ==
  IF input.skImage # NoImage
  THEN [ok |-> TRUE, image |-> input.skImage, message |-> NoError]
  ELSE [ok |-> TRUE, image |-> Photo(800, 600), message |-> NoError]

\* loadSkImage: the image the promise resolves to, or the message of the
\* error it rejects with
loadSkImage(input) ==
  IF input.skImage # NoImage
  THEN [ok |-> TRUE, image |-> input.skImage, message |-> NoError]
  ELSE IF input.bytes # "absent"
  THEN (IF MakeImageFromEncoded(input.bytes) = NoImage
        THEN [ok |-> FALSE, image |-> NoImage, message |-> LoadErrorMessage(input)]
        ELSE [ok |-> TRUE, image |-> MakeImageFromEncoded(input.bytes),
              message |-> NoError])
  ELSE IF input.uri # "absent"
  THEN (IF MakeImageFromEncoded(input.uri) = NoImage
        THEN [ok |-> FALSE, image |-> NoImage, message |-> LoadErrorMessage(input)]
        ELSE [ok |-> TRUE, image |-> MakeImageFromEncoded(input.uri),
              message |-> NoError])
  ELSE [ok |-> FALSE, image |-> NoImage, message |-> LoadErrorMessage(input)]

\* the check of line 148 left out
LatestAfterLoadUnchecked(currentRequestId) == TRUE

\* currentRequestId === requestIdRef.current after the image has loaded
LatestAfterLoad(currentRequestId) == currentRequestId = requestIdRef

\* the check of line 171 left out
LatestAfterProcessingUnchecked(currentRequestId) == TRUE

\* currentRequestId === requestIdRef.current after the pipeline has run
LatestAfterProcessing(currentRequestId) == currentRequestId = requestIdRef

\* the check of line 177 left out
LatestInCatchUnchecked(currentRequestId) == TRUE

\* currentRequestId === requestIdRef.current in the catch block
LatestInCatch(currentRequestId) == currentRequestId = requestIdRef

\* the call returns value; stale records whether a later processImage or
\* reset had been issued by then
Settle(c, value, stagesRun) ==
  [calls EXCEPT ![c] = [@ EXCEPT !.at = "done",
                                 !.returned = [settled |-> TRUE, value |-> value],
                                 !.stages = stagesRun,
                                 !.stale = (calls[c].id # requestIdRef)]]

InitHook ==
  /\ NoPipeline
  /\ NoCall
  /\ NoHook
  /\ NoApp

\* processImage(input) clearing the previous result as it starts
ProcessImageClearsResult(input) ==
  /\ Len(calls) < MaxCalls
  /\ requestIdRef' = requestIdRef + 1
  /\ calls' = Append(calls, [id |-> requestIdRef + 1, input |-> input,
                             at |-> "loading", source |-> NoImage, stages |-> 0,
                             stale |-> FALSE, returned |-> [settled |-> FALSE]])
  /\ processing' = TRUE
  /\ error' = NoError
  /\ result' = NoImage
  /\ UNCHANGED << saved, call, ret, pipeVars, appVars >>

\* processImage(input) up to await loadSkImage(input)
ProcessImage(input) ==
  /\ Len(calls) < MaxCalls
  /\ requestIdRef' = requestIdRef + 1
  /\ calls' = Append(calls, [id |-> requestIdRef + 1, input |-> input,
                             at |-> "loading", source |-> NoImage, stages |-> 0,
                             stale |-> FALSE, returned |-> [settled |-> FALSE]])
  /\ processing' = TRUE
  /\ error' = NoError
  /\ UNCHANGED << result, saved, call, ret, pipeVars, appVars >>

\* loadSkImage has settled: the catch block, or the check of step 2 and the
\* setTimeout of step 3
Loaded(c) ==
  /\ calls[c].at = "loading"
  /\ LET l == loadSkImage(calls[c].input)
     IN IF ~l.ok
        THEN /\ calls' = Settle(c, NoImage, 0)
             /\ IF LatestInCatch(calls[c].id)
                THEN error' = l.message /\ processing' = FALSE
                ELSE UNCHANGED << error, processing >>
        ELSE IF ~LatestAfterLoad(calls[c].id)
        THEN /\ calls' = Settle(c, NoImage, 0)
             /\ UNCHANGED << error, processing >>
        ELSE /\ calls' = [calls EXCEPT ![c] = [@ EXCEPT !.at = "scheduled",
                                                        !.source = l.image]]
             /\ UNCHANGED << error, processing >>
  /\ UNCHANGED << result, requestIdRef, saved, call, ret, pipeVars, appVars >>

\* the timer callback runs applyY2KCameraEffect and settles the promise; the
\* call resumes at step 4 or in the catch block
TimerFires(c) ==
  /\ calls[c].at = "scheduled"
  /\ \E codec \in CodecOutcomes :
       \E out \in {applyY2KCameraEffect(calls[c].source, calls[c].input.options,
                                       rng, codec)} :
          /\ rng' = out.rng
          /\ IF ~out.ok
             THEN /\ calls' = Settle(c, NoImage, Len(out.trace))
                  /\ IF LatestInCatch(calls[c].id)
                     THEN error' = "Failed to create Skia surface"
                          /\ processing' = FALSE
                     ELSE UNCHANGED << error, processing >>
                  /\ UNCHANGED result
             ELSE IF ~LatestAfterProcessing(calls[c].id)
             THEN /\ calls' = Settle(c, NoImage, Len(out.trace))
                  /\ UNCHANGED << result, error, processing >>
             ELSE /\ calls' = Settle(c, out.image, Len(out.trace))
                  /\ result' = out.image
                  /\ processing' = FALSE
                  /\ UNCHANGED error
  /\ UNCHANGED << requestIdRef, saved, call, ret, sourceImage, options, image,
                  px, pc, status, trace, early, surfaces, encodes, stageOut,
                  appVars >>

\* reset()
Reset ==
  /\ requestIdRef - Len(calls) < MaxResets
  /\ result' = NoImage
  /\ error' = NoError
  /\ processing' = FALSE
  /\ requestIdRef' = requestIdRef + 1
  /\ UNCHANGED << calls, saved, call, ret, pipeVars, appVars >>

\* saveResult(outputPath, quality): the encoder and the file system succeed
\* or fail
SaveResult ==
  /\ \E outcome \in {"written", "encodeFailed", "writeFailed"} :
       IF result = NoImage
       THEN error' = "No result to save" /\ UNCHANGED saved
       ELSE IF outcome = "written"
       THEN saved' = saved \cup {result} /\ UNCHANGED error
       ELSE IF outcome = "encodeFailed"
       THEN error' = "Failed to encode result as JPEG" /\ UNCHANGED saved
       ELSE error' = "Failed to save image" /\ UNCHANGED saved
  /\ UNCHANGED << result, processing, requestIdRef, calls, call, ret, pipeVars, appVars >>

NextHook ==
  \/ \E input \in ProcessImageInputs : ProcessImage(input)
  \/ \E c \in DOMAIN calls : Loaded(c)
  \/ \E c \in DOMAIN calls : TimerFires(c)
  \/ Reset
  \/ SaveResult

SpecHook == InitHook /\ [][NextHook]_vars

\* the input names no image, or its bytes (or, without bytes, its uri) hold
\* data that is no image
FatalInput(input) ==
  /\ input.skImage = NoImage
  /\ IF input.bytes # "absent" THEN input.bytes = "garbage"
     ELSE input.uri \in {"absent", "garbage"}

ReturnedNull(c) == c.returned = [settled |-> TRUE, value |-> NoImage]

\* C18 (fatal load errors abort before any stage): a processImage call whose
\* input is fatal leaves the loading step by returning null without a stage
\* of the pipeline having run for it, then or ever, and if it is still the
\* latest request, error becomes the message of the failure and processing
\* becomes false.
FatalLoadAborts ==
  [][/\ \A c \in DOMAIN calls :
          (FatalInput(calls[c].input) /\ calls[c].at = "loading"
           /\ calls'[c] # calls[c]) =>
             /\ calls'[c].at = "done"
             /\ ReturnedNull(calls'[c])
             /\ calls[c].id = requestIdRef =>
                  (error' = LoadErrorMessage(calls[c].input) /\ processing' = FALSE)
     /\ \A c \in DOMAIN calls' :
          FatalInput(calls'[c].input) => calls'[c].stages = 0]_vars

\* a call with undecodable bytes has returned null as the latest request and
\* left its message in error
FatalLoadWitness ==
  \E c \in DOMAIN calls :
    /\ calls[c].input.bytes = "garbage"
    /\ FatalInput(calls[c].input)
    /\ calls[c].at = "done"
    /\ ~calls[c].stale
    /\ ReturnedNull(calls[c])
    /\ calls[c].stages = 0
    /\ error = "Failed to decode image from bytes"
    /\ ~processing

\* C19 (cooperative cancellation between stages): no stage of the pipeline
\* of a request starts once the request has been superseded by a later
\* processImage or reset.
StagesOnlyForLatest ==
  [][\A c \in DOMAIN calls :
       calls'[c].stages > calls[c].stages => calls[c].id = requestIdRef]_vars

\* What the hook does guarantee: staleness is checked when the image has
\* loaded and not again before the pipeline runs.  A request that is
\* superseded when its image has loaded returns without a stage having run; a
\* request that has passed that check runs its pipeline when the timer fires,
\* superseded or not.
StaleLoadNeverRuns ==
  [][\A c \in DOMAIN calls :
       /\ (calls[c].at = "loading" /\ calls'[c] # calls[c]
           /\ calls[c].id # requestIdRef) =>
             (calls'[c].at = "done" /\ calls'[c].stages = 0)
       /\ (calls[c].at = "scheduled" /\ calls'[c] # calls[c]) =>
             (calls'[c].at = "done" /\ calls'[c].stages >= 1)
       /\ calls[c].at = "done" => calls'[c] = calls[c]]_vars

\* one request was superseded while its image loaded and ran no stage,
\* another was superseded after the check and ran the whole pipeline
StaleLoadWitness ==
  \E c, d \in DOMAIN calls :
    /\ calls[c].at = "done" /\ calls[c].stale
    /\ loadSkImage(calls[c].input).ok
    /\ calls[c].stages = 0
    /\ calls[d].at = "done" /\ calls[d].stale
    /\ calls[d].stages >= 13

\* C20 (stale results are discarded): a processImage call that is no longer
\* the latest request when it returns, after loading or after processing,
\* returns null and leaves result, error and processing as they are.
StaleDiscarded ==
  [][\A c \in DOMAIN calls :
       (calls[c].at # "done" /\ calls'[c].at = "done"
        /\ calls[c].id # requestIdRef) =>
          /\ ReturnedNull(calls'[c])
          /\ result' = result
          /\ error' = error
          /\ processing' = processing]_vars

\* a call whose load failed and a call whose pipeline succeeded have both
\* returned after they were superseded
StaleDiscardedWitness ==
  \E c, d \in DOMAIN calls :
    /\ calls[c].at = "done" /\ calls[c].stale
    /\ ~loadSkImage(calls[c].input).ok
    /\ calls[d].at = "done" /\ calls[d].stale
    /\ calls[d].stages >= 13
    /\ ReturnedNull(calls[d])

\* ------------------------------------------------------------------------
\* Properties of the orchestrator's parameters
\* ------------------------------------------------------------------------
JustBloomed == trace # << >> /\ Last(trace) = "applyBloomEffect"

\* the image the bloom stage was called with: the buffer of the dynamic
\* range stage converted by pixelsToImage and passed through
\* reduceLocalContrast
BloomInput ==
  reduceLocalContrast(pixelsToImage(px.data, px.width, px.height),
                      Mul(intensity, FP))

\* the bloom options whose other fields are those of step 5 and whose
\* intensity is bloomIntensity
BloomOptionsWith(bloomIntensity) ==
  [intensity |-> bloomIntensity,
   highlightThreshold |-> 150 * FP,
   bloomStrength |-> Mul(intensity, 800),
   bloomRadius |-> Mul(intensity, 10),
   shadowCrushStrength |-> Mul(intensity, 500),
   shadowCrushRadius |-> Mul(intensity, 1)]

\* C21 as stated: the bloom stage runs with the caller's intensity as its
\* intensity parameter, and at caller intensity 0 its black-lift floor is 0:
\* a channel that enters the stage below 8 leaves it unchanged.
BloomIntensityClaim ==
  JustBloomed =>
    /\ stageOut = Arr(applyBloomEffectData(BloomInput, BloomOptionsWith(intensity)))
    /\ intensity = 0 => BlackLiftOf(BloomOptionsWith(intensity)) = 0

\* C21 (bloom intensity derivation, amended): the bloom stage runs with the
\* fixed intensity 0.8 whatever the caller's intensity is, so its black-lift
\* floor is 5 * 0.8 * (2 - shadowCrushStrength) = 8 - 2 * i, and at caller
\* intensity 0 no colour channel of the image the stage returns is below 8.
BloomIntensityFixed ==
  JustBloomed =>
    /\ stageOut = Arr(applyBloomEffectData(BloomInput, BloomOptionsWith(800)))
    /\ intensity = 0 =>
         \A k \in DOMAIN image.bytes : Chan(k) # 3 => image.bytes[k] >= 8

\* at caller intensity 0 a channel that entered the bloom stage below 8 was
\* lifted to 8
BloomIntensityWitness ==
  /\ JustBloomed
  /\ intensity = 0
  /\ \E k \in DOMAIN stageOut :
       /\ Chan(k) # 3
       /\ BloomInput.bytes[k] < 8
       /\ image.bytes[k] = 8

\* outputQuality values, inside and outside [0,100]
OtherQualities == {-5, 0, 40, 85, 100, 120}

Finished == status \in {"returned", "threw"}

\* the outcome the codec had in the run (none if the run threw before it)
CodecOfRun == IF encodes = << >> THEN "ok" ELSE Last(encodes).outcome

LatestRequestPending ==
  /\ calls # << >>
  /\ Last(calls).at # "done"
  /\ Last(calls).id = requestIdRef

\* C24 (processing flag tracks the latest request): processing is true
\* exactly when the most recently issued processImage request has neither
\* completed nor been followed by a reset.
ProcessingTracksLatest == processing <=> LatestRequestPending

\* an earlier request has completed, by failing or by being discarded, while
\* the latest one is still running and processing is still true
ProcessingWitness ==
  /\ Len(calls) = 2
  /\ calls[1].at = "done"
  /\ calls[1].stale
  /\ LatestRequestPending
  /\ processing

\* the step is a reset()
IsReset ==
  /\ calls' = calls
  /\ requestIdRef' = requestIdRef + 1
  /\ processing' = FALSE
  /\ error' = NoError

\* the step completes, with an image, a request that is still the latest
IsLatestSuccess(c) ==
  /\ calls[c].at = "scheduled"
  /\ calls[c].id = requestIdRef
  /\ requestIdRef' = requestIdRef
  /\ calls'[c].at = "done"
  /\ calls'[c].returned.value # NoImage

\* the step issues a request or completes one by failure
StartsOrFails ==
  \/ Len(calls') = Len(calls) + 1
  \/ \E c \in DOMAIN calls :
       /\ calls[c].at # "done" /\ calls'[c].at = "done"
       /\ calls'[c].returned.value = NoImage

\* C25 (result changes only by a latest-request success or by reset): a step
\* that makes result non-null completes successfully a request that is still
\* the latest, and result is then that request's output; a step that makes
\* result null is a reset; a step that issues a request or in which a request
\* fails leaves result as it was.
ResultChangesOnlyBySuccessOrReset ==
  [][/\ (result' # NoImage /\ result' # result) =>
          \E c \in DOMAIN calls :
             IsLatestSuccess(c) /\ result' = calls'[c].returned.value
     /\ (result # NoImage /\ result' = NoImage) => IsReset
     /\ StartsOrFails => result' = result]_vars

\* a result of an earlier request is still held after a later request was
\* issued and failed
ResultKeptWitness ==
  /\ Len(calls) = 2
  /\ result # NoImage
  /\ calls[1].returned = [settled |-> TRUE, value |-> result]
  /\ calls[2].at = "done"
  /\ calls[2].returned.value = NoImage
  /\ ~calls[2].stale
  /\ error # NoError

\* ---------------------------------------------------------------------
\* usePhotoStorage (mobile/app/hooks/usePhotoStorage.ts)
\* ---------------------------------------------------------------------

\* calls of the hook's functions after the loadPhotos of the mount effect
MaxStorageCalls == 2

\* assets handed to one savePhotos call
MaxAssets == 2

\* what AsyncStorage.getItem resolves to for a key never written, or removed
Absent == [state |-> "null", json |-> << >>]

\* AsyncStorage.getItem rejecting
Rejected == [state |-> "rejected", json |-> << >>]

\* JSON.stringify of a Photo[]: id, uri and createdAt of every entry, in order
JSONstringify(list) == [state |-> "text", json |-> list]

\* JSON.parse of a stored text
JSONparse(text) == text.json

\* a Photo: uri is that of a file of the photos directory, or a text new File
\* throws on
PhotoOf(id, createdAt, uri) == [id |-> id, createdAt |-> createdAt, uri |-> uri]

\* ids of the photos of a list
IdsOf(list) == {list[k].id : k \in DOMAIN list}

\* the list with photo p put behind every entry that is not older than p
InsertByCreatedAt(p, list) ==
  LET k == Cardinality({j \in DOMAIN list : list[j].createdAt >= p.createdAt})
  IN SubSeq(list, 1, k) \o << p >> \o SubSeq(list, k + 1, Len(list))

\* list.sort((a, b) => b.createdAt - a.createdAt): newest first, entries of
\* equal createdAt in their order in list
RECURSIVE SortNewestFirst(_)
SortNewestFirst(list) ==
  IF list = << >> THEN << >>
  ELSE InsertByCreatedAt(list[Len(list)],
                         SortNewestFirst(SubSeq(list, 1, Len(list) - 1)))

\* new File(photo.uri).exists without a throw
FileExists(photo) == photo.uri = "file" /\ photo.id \in files

\* loadPhotos keeping every stored entry
validPhotosUnchecked(photosMeta) == photosMeta

\* the validPhotos of loadPhotos: the entries whose file exists
validPhotos(photosMeta) == SelectSeq(photosMeta, FileExists)

\* savePhotos putting the new photos in front without sorting
updatedPhotosAfterSaveUnsorted(newPhotos, closure) == newPhotos \o closure

\* updatedPhotos of savePhotos
updatedPhotosAfterSave(newPhotos, closure) == SortNewestFirst(newPhotos \o closure)

\* updatedPhotos of deletePhoto
updatedPhotosAfterDelete(photoId, closure) ==
  LET Keep(p) == p.id # photoId IN SelectSeq(closure, Keep)

\* a call of one of the hook's functions: at is the await it is suspended at,
\* data what getItem resolved to, list its local photo list, ok whether the
\* storage call it awaits resolves
OpOf(kind, at, data, list, ok) ==
  [kind |-> kind, at |-> at, data |-> data, list |-> list, ok |-> ok]

\* the call has returned: its locals are gone
Finish(o) ==
  [ops EXCEPT ![o] = OpOf("returned", "done", Absent, << >>, TRUE)]

\* metadata and files a previous session can have left behind
StoredLists ==
  {<< PhotoOf(2, 2, "file"), PhotoOf(1, 1, "file") >>,
   << PhotoOf(2, 2, "file"), PhotoOf(1, 1, "malformed") >>}

\* the hook after its first render and the mount effect's loadPhotos()
MountStorage ==
  /\ photos = << >>
  /\ closurePhotos = << >>
  /\ isLoading = TRUE
  /\ clock = 2
  /\ kept = {}
  /\ \/ storage = Absent /\ files = {}
     \/ \E list \in StoredLists :
          /\ storage = JSONstringify(list)
          /\ files \in {{1, 2}, {2}}
          /\ list[2].uri = "malformed" => files = {1, 2}
  /\ \E read \in {storage, Rejected} :
       /\ ops = << OpOf("loadPhotos", "getItem", read, << >>, TRUE) >>
       /\ failed = (read = Rejected)

\* MainApp is not mounted
NoOnboarding ==
  /\ onboardingKey = "null"
  /\ hasCompletedOnboarding = FALSE
  /\ appIsLoading = TRUE
  /\ check = [at |-> "none", value |-> "null", firstRun |-> FALSE]
  /\ imports = << >>
  /\ completions = << >>

InitStorage ==
  /\ NoPipeline
  /\ NoCall
  /\ NoHook
  /\ NoOnboarding
  /\ MountStorage

\* a further call may be made
MayCall == Len(ops) < 1 + MaxStorageCalls

\* loadPhotos() up to await AsyncStorage.getItem, called by refreshPhotos
loadPhotos(read) ==
  /\ MayCall
  /\ isLoading' = TRUE
  /\ ops' = Append(ops, OpOf("loadPhotos", "getItem", read, << >>, TRUE))
  /\ failed' = (failed \/ read = Rejected)
  /\ UNCHANGED << photos, closurePhotos, storage, files, clock, kept >>

\* loadPhotos from the result of getItem to the await of setItem, or to its end
loadPhotosResumes(o) ==
  /\ ops[o].kind = "loadPhotos" /\ ops[o].at = "getItem"
  /\ IF ops[o].data.state = "rejected"
     THEN /\ ops' = Finish(o)
          /\ isLoading' = FALSE
          /\ UNCHANGED << photos, storage, failed >>
     ELSE IF ops[o].data.state = "null"
     THEN /\ ops' = Finish(o)
          /\ isLoading' = FALSE
          /\ UNCHANGED << photos, storage, failed >>
     ELSE LET photosMeta == JSONparse(ops[o].data)
              valid == validPhotos(photosMeta)
          IN IF Len(valid) # Len(photosMeta)
             THEN /\ \E ok \in BOOLEAN :
                       /\ storage' = IF ok THEN JSONstringify(valid) ELSE storage
                       /\ ops' = [ops EXCEPT ![o] =
                                    [@ EXCEPT !.at = "setItem", !.list = valid,
                                              !.ok = ok]]
                       /\ failed' = (failed \/ ~ok)
                  /\ UNCHANGED << photos, isLoading >>
             ELSE /\ photos' = SortNewestFirst(valid)
                  /\ ops' = Finish(o)
                  /\ isLoading' = FALSE
                  /\ UNCHANGED << storage, failed >>
  /\ UNCHANGED << closurePhotos, files, clock, kept >>

\* loadPhotos from the result of setItem to its end
loadPhotosRewritten(o) ==
  /\ ops[o].kind = "loadPhotos" /\ ops[o].at = "setItem"
  /\ IF ops[o].ok
     THEN photos' = SortNewestFirst(ops[o].list) /\ ops' = Finish(o)
     ELSE UNCHANGED photos /\ ops' = Finish(o)
  /\ isLoading' = FALSE
  /\ UNCHANGED << closurePhotos, storage, files, clock, kept, failed >>

\* the photos savePhotos makes of n assets when Date.now() has advanced by 1
\* since the last call and advances by d from one asset to the next
newPhotosOf(n, d) ==
  [k \in 1..n |-> PhotoOf(10 * (Len(ops) + 1) + k, clock + 1 + (k - 1) * d, "file")]

\* savePhotos(assets) up to await AsyncStorage.setItem: the copy of asset
\* copied + 1 throws, if there is one
savePhotos(n, d, copied, ok) ==
  /\ MayCall
  /\ files' = files \cup IdsOf(SubSeq(newPhotosOf(n, d), 1, copied))
  /\ clock' = IF copied = 0 THEN clock ELSE clock + 1 + (copied - 1) * d
  /\ IF copied < n
     THEN /\ ops' = Append(ops, OpOf("returned", "done", Absent, << >>, TRUE))
          /\ UNCHANGED << photos, storage, kept >>
     ELSE /\ photos' = updatedPhotosAfterSave(newPhotosOf(n, d), closurePhotos)
          /\ storage' = IF ok THEN JSONstringify(photos') ELSE storage
          /\ kept' = IF ok THEN kept \cup IdsOf(newPhotosOf(n, d)) ELSE kept
          /\ ops' = Append(ops, OpOf("savePhotos", "setItem", Absent, << >>, ok))
  /\ failed' = (failed \/ copied < n \/ ~ok)
  /\ UNCHANGED << isLoading, closurePhotos >>

\* savePhotos from the result of setItem to its end
savePhotosSettles(o) ==
  /\ ops[o].kind = "savePhotos" /\ ops[o].at = "setItem"
  /\ ops' = Finish(o)
  /\ UNCHANGED << photos, isLoading, closurePhotos, storage, files, clock, kept,
                  failed >>

\* deletePhoto(photoId) up to await AsyncStorage.setItem
deletePhoto(photoId, ok) ==
  /\ MayCall
  /\ IF photoId \notin IdsOf(closurePhotos)
     THEN /\ ops' = Append(ops, OpOf("returned", "done", Absent, << >>, TRUE))
          /\ UNCHANGED << photos, storage, files, kept, failed >>
     ELSE /\ files' = files \ {photoId}
          /\ photos' = updatedPhotosAfterDelete(photoId, closurePhotos)
          /\ storage' = IF ok THEN JSONstringify(photos') ELSE storage
          /\ kept' = kept \ {photoId}
          /\ failed' = (failed \/ ~ok)
          /\ ops' = Append(ops, OpOf("deletePhoto", "setItem", Absent, << >>, ok))
  /\ UNCHANGED << isLoading, closurePhotos, clock >>

\* deletePhoto from the result of setItem to its end
deletePhotoSettles(o) ==
  /\ ops[o].kind = "deletePhoto" /\ ops[o].at = "setItem"
  /\ ops' = Finish(o)
  /\ UNCHANGED << photos, isLoading, closurePhotos, storage, files, clock,
                  kept, failed >>

\* clearAllPhotos() up to await AsyncStorage.removeItem
clearAllPhotos(ok) ==
  /\ MayCall
  /\ kept' = {}
  /\ files' = {}
  /\ storage' = IF ok THEN Absent ELSE storage
  /\ ops' = Append(ops, OpOf("clearAllPhotos", "removeItem", Absent, << >>, ok))
  /\ failed' = (failed \/ ~ok)
  /\ UNCHANGED << photos, isLoading, closurePhotos, clock >>

\* clearAllPhotos from the result of removeItem to its end
clearAllPhotosSettles(o) ==
  /\ ops[o].kind = "clearAllPhotos" /\ ops[o].at = "removeItem"
  /\ IF ops[o].ok
     THEN photos' = << >> /\ ops' = Finish(o)
     ELSE UNCHANGED photos /\ ops' = Finish(o)
  /\ UNCHANGED << isLoading, closurePhotos, storage, files, clock, kept, failed >>

\* React renders the component again: its callbacks capture the current photos
render ==
  /\ closurePhotos # photos
  /\ closurePhotos' = photos
  /\ UNCHANGED << photos, isLoading, storage, files, clock, ops, kept, failed >>

\* the variables the storage hook does not touch
nonStoreVars == << pipeVars, call, ret, hookVars, onboardVars >>

LoadPhotos == (\E read \in {storage, Rejected} : loadPhotos(read)) /\ UNCHANGED nonStoreVars

LoadPhotosResumes == (\E o \in DOMAIN ops : loadPhotosResumes(o)) /\ UNCHANGED nonStoreVars

LoadPhotosRewritten == (\E o \in DOMAIN ops : loadPhotosRewritten(o)) /\ UNCHANGED nonStoreVars

SavePhotos ==
  /\ \E n \in 1..MaxAssets, ok \in BOOLEAN :
       \E d \in (IF n = 1 THEN {0} ELSE {0, 1}), copied \in {0, n} :
          savePhotos(n, d, copied, ok)
  /\ UNCHANGED nonStoreVars

SavePhotosSettles == (\E o \in DOMAIN ops : savePhotosSettles(o)) /\ UNCHANGED nonStoreVars

DeletePhoto ==
  /\ \E photoId \in IdsOf(closurePhotos) \cup IdsOf(photos) \cup {0}, ok \in BOOLEAN :
       deletePhoto(photoId, ok)
  /\ UNCHANGED nonStoreVars

DeletePhotoSettles == (\E o \in DOMAIN ops : deletePhotoSettles(o)) /\ UNCHANGED nonStoreVars

ClearAllPhotos == (\E ok \in BOOLEAN : clearAllPhotos(ok)) /\ UNCHANGED nonStoreVars

ClearAllPhotosSettles ==
  (\E o \in DOMAIN ops : clearAllPhotosSettles(o)) /\ UNCHANGED nonStoreVars

Render == render /\ UNCHANGED nonStoreVars

NextStorage ==
  \/ LoadPhotos
  \/ LoadPhotosResumes
  \/ LoadPhotosRewritten
  \/ SavePhotos
  \/ SavePhotosSettles
  \/ DeletePhoto
  \/ DeletePhotoSettles
  \/ ClearAllPhotos
  \/ ClearAllPhotosSettles
  \/ Render

SpecStorage == InitStorage /\ [][NextStorage]_vars

\* every call of the hook's functions has returned
AllReturned == \A o \in DOMAIN ops : ops[o].at = "done"

\* no entry of the list is older than a later one
NewestFirst(list) ==
  \A j, k \in DOMAIN list : j < k => list[j].createdAt >= list[k].createdAt

\* C28 (photo list ordering): in every state of the hook, and so after any
\* sequence of completed loadPhotos, savePhotos, deletePhoto and
\* clearAllPhotos calls, photos is sorted by createdAt, newest first.
PhotosNewestFirst == NewestFirst(photos)

\* every call has returned, among them a savePhotos, and photos holds an old
\* photo behind two photos of one savePhotos call, the later asset first
PhotosNewestFirstWitness ==
  /\ AllReturned
  /\ Len(photos) >= 3
  /\ photos[1].id = photos[2].id + 1
  /\ photos[1].createdAt > photos[2].createdAt
  /\ {photos[1].id, photos[2].id} \subseteq kept
  /\ photos[3].id \notin kept

\* the entries of a list
Entries(list) == {list[k] : k \in DOMAIN list}

\* the list holds exactly the entries of the set, each once
HoldsExactly(list, entries) ==
  Entries(list) = entries /\ Len(list) = Cardinality(entries)

\* the stored entries call o has read whose file exists
ExistingOf(o) ==
  {p \in Entries(JSONparse(ops[o].data)) : p.uri = "file" /\ p.id \in files}

\* the stored entries call o found to exist when it checked them
FoundBy(o) ==
  IF ops[o].at = "setItem" THEN Entries(ops[o].list) ELSE ExistingOf(o)

\* C22 as stated: whenever a loadPhotos that read stored metadata completes,
\* photos holds exactly the stored entries whose file exists and isLoading is
\* false.
LoadPruningClaim ==
  [][\A o \in DOMAIN ops :
       (/\ ops[o].kind = "loadPhotos"
        /\ ops[o].data.state = "text"
        /\ ops'[o].at = "done")
       => /\ HoldsExactly(photos', FoundBy(o))
          /\ isLoading' = FALSE]_vars

\* C22 (loadPhotos pruning, amended): a loadPhotos that read stored metadata
\* awaits a rewrite of the metadata if and only if the file of at least one
\* entry is missing or its check throws; the rewrite, if it succeeds, stores
\* exactly the entries whose file exists; when the call completes without a
\* rewrite, or after a rewrite that succeeded, photos holds exactly those
\* entries, and after a rewrite that failed photos is what it was; isLoading
\* is false when the call completes, with or without an error.
LoadPruning ==
  [][\A o \in DOMAIN ops :
       ops[o].kind = "loadPhotos" =>
         /\ ops'[o].at = "done" => isLoading' = FALSE
         /\ (/\ ops[o].at = "getItem" /\ ops'[o].at # "getItem"
             /\ ops[o].data.state = "text") =>
              LET dropped == Cardinality(ExistingOf(o)) # Len(JSONparse(ops[o].data))
              IN /\ dropped <=> ops'[o].at = "setItem"
                 /\ ~dropped =>
                      HoldsExactly(photos', ExistingOf(o)) /\ storage' = storage
                 /\ dropped =>
                      /\ photos' = photos
                      /\ HoldsExactly(ops'[o].list, ExistingOf(o))
                      /\ storage' = IF ops'[o].ok THEN JSONstringify(ops'[o].list)
                                    ELSE storage
         /\ (ops[o].at = "setItem" /\ ops'[o].at = "done") =>
              IF ops[o].ok THEN HoldsExactly(photos', Entries(ops[o].list))
              ELSE photos' = photos]_vars

\* the mount's loadPhotos has completed, nothing else was called, and the two
\* stored entries have been pruned to the one whose file exists, in photos
\* and in storage
LoadPruningWitness ==
  /\ Len(ops) = 1
  /\ ops[1].at = "done"
  /\ ~isLoading
  /\ Len(photos) = 1
  /\ photos[1].id \in files
  /\ storage = JSONstringify(photos)

\* the photo list persisted under '@photos_metadata'
PersistedPhotos == IF storage.state = "text" THEN JSONparse(storage) ELSE << >>

\* C29 (no lost photo under interleaving): once every call has returned, and
\* no storage or file-system call has failed, the persisted metadata equals
\* photos and holds every photo that was saved and not deleted or cleared
\* since.
NoLostPhoto ==
  (AllReturned /\ ~failed) =>
    /\ PersistedPhotos = photos
    /\ kept \subseteq IdsOf(PersistedPhotos)

\* ---------------------------------------------------------------------
\* chunkPhotosIntoRows (mobile/app/components/PhotoRow) and PhotoRow
\* ---------------------------------------------------------------------

\* length of the longest photo list chunked
MaxPhotos == 25

LAYOUT_PATTERN ==
  << [count |-> 3, variant |-> "leftLarge", height |-> 260],
     [count |-> 2, variant |-> "leftHeavy", height |-> 260],
     [count |-> 3, variant |-> "rightLarge", height |-> 260],
     [count |-> 2, variant |-> "equal", height |-> 260],
     [count |-> 1, variant |-> "full", height |-> 390],
     [count |-> 3, variant |-> "topHeavy", height |-> 390],
     [count |-> 2, variant |-> "rightHeavy", height |-> 260],
     [count |-> 3, variant |-> "bottomHeavy", height |-> 390],
     [count |-> 3, variant |-> "equal", height |-> 300] >>

\* LAYOUT_PATTERN[patternIndex % LAYOUT_PATTERN.length]
patternAt(patternIndex) ==
  LAYOUT_PATTERN[(patternIndex % Len(LAYOUT_PATTERN)) + 1]

\* list.slice(from, to) for 0 <= from <= to
Slice(list, from, to) ==
  SubSeq(list, from + 1, IF to < Len(list) THEN to ELSE Len(list))

\* the whole pattern entry taken although fewer photos are left
photosToTakeWhole(pattern, remainingPhotos) == pattern.count

\* Math.min(pattern.count, remainingPhotos)
photosToTake(pattern, remainingPhotos) ==
  IF pattern.count < remainingPhotos THEN pattern.count ELSE remainingPhotos

\* the row id made of the row's size alone
rowIdBySize(photoIndex, taken) == << "row", taken >>

\* `row-${photoIndex}-${photosToTake}`
rowId(photoIndex, taken) == << "row", photoIndex, taken >>

\* the row one iteration of the loop pushes
rowOf(list, photoIndex, patternIndex) ==
  LET pattern == patternAt(patternIndex)
      taken == photosToTake(pattern, Len(list) - photoIndex)
      adjusted == IF taken = 1 THEN [variant |-> "full", height |-> 390]
                  ELSE IF taken = 2 /\ pattern.count = 3
                  THEN [variant |-> "leftHeavy", height |-> 260]
                  ELSE [variant |-> pattern.variant, height |-> pattern.height]
  IN [id |-> rowId(photoIndex, taken),
      photos |-> Slice(list, photoIndex, photoIndex + taken),
      variant |-> adjusted.variant,
      height |-> adjusted.height,
      taken |-> taken]

TwoPhotoVariants == {"equal", "leftHeavy", "rightHeavy"}

ThreePhotoVariants == {"leftLarge", "rightLarge", "equal", "topHeavy", "bottomHeavy"}

\* PhotoRow: the variant handed to TwoPhotoLayout
twoPhotoVariant(variant) ==
  IF variant \in TwoPhotoVariants THEN variant ELSE "equal"

\* PhotoRow: the variant handed to ThreePhotoLayout
threePhotoVariant(variant) ==
  IF variant \in ThreePhotoVariants THEN variant ELSE "leftLarge"

\* the photo lists chunked: photos 1..n for every length n
PhotoLists == {[k \in 1..n |-> k] : n \in 0..MaxPhotos}

\* a call of chunkPhotosIntoRows at the head of its loop for the first time
InitChunk ==
  /\ NoPipeline
  /\ NoHook
  /\ NoApp
  /\ \E list \in PhotoLists : call = [fn |-> "chunkPhotosIntoRows", photos |-> list]
  /\ ret = [done |-> FALSE, rows |-> << >>, photoIndex |-> 0, patternIndex |-> 0]

\* one iteration of the while loop
ChunkIteration ==
  /\ call.fn = "chunkPhotosIntoRows"
  /\ ~ret.done
  /\ ret.photoIndex < Len(call.photos)
  /\ LET row == rowOf(call.photos, ret.photoIndex, ret.patternIndex)
     IN ret' = [ret EXCEPT !.rows = Append(@, [id |-> row.id, photos |-> row.photos,
                                               variant |-> row.variant,
                                               height |-> row.height]),
                           !.photoIndex = @ + row.taken,
                           !.patternIndex = @ + 1]
  /\ UNCHANGED << call, pipeVars, hookVars, appVars >>

\* the loop condition fails: return rows
ChunkReturns ==
  /\ call.fn = "chunkPhotosIntoRows"
  /\ ~ret.done
  /\ ret.photoIndex >= Len(call.photos)
  /\ ret' = [ret EXCEPT !.done = TRUE]
  /\ UNCHANGED << call, pipeVars, hookVars, appVars >>

NextChunk == ChunkIteration \/ ChunkReturns

SpecChunk == InitChunk /\ [][NextChunk]_vars

\* chunkPhotosIntoRows has returned
ChunkReturned == call.fn = "chunkPhotosIntoRows" /\ ret.done

\* the photos of the rows, in row order
RECURSIVE PhotosOfRows(_)
PhotosOfRows(rows) ==
  IF rows = << >> THEN << >>
  ELSE PhotosOfRows(SubSeq(rows, 1, Len(rows) - 1)) \o rows[Len(rows)].photos

\* C26 (chunkPhotosIntoRows partitions its input): the loop has made at most
\* one iteration per photo consumed and has consumed no more photos than the
\* list holds, so it terminates; when it returns every row holds 1 to 3
\* photos, the rows' photos in row order are the input list, every row but
\* the last holds as many photos as its pattern entry asks for, and the row
\* ids are pairwise distinct.
ChunkPartitions ==
  call.fn = "chunkPhotosIntoRows" =>
    /\ Len(ret.rows) <= ret.photoIndex
    /\ ret.photoIndex <= Len(call.photos)
    /\ ret.done =>
         /\ \A r \in DOMAIN ret.rows : Len(ret.rows[r].photos) \in 1..3
         /\ PhotosOfRows(ret.rows) = call.photos
         /\ \A r \in DOMAIN ret.rows :
              r < Len(ret.rows) =>
                Len(ret.rows[r].photos) = patternAt(r - 1).count
         /\ \A r1, r2 \in DOMAIN ret.rows :
              r1 # r2 => ret.rows[r1].id # ret.rows[r2].id

\* a list long enough to use every pattern entry and the first one again has
\* been chunked, and the last row holds fewer photos than its entry asks for
ChunkPartitionsWitness ==
  /\ ChunkReturned
  /\ Len(ret.rows) > Len(LAYOUT_PATTERN)
  /\ Len(ret.rows[Len(ret.rows)].photos) < patternAt(Len(ret.rows) - 1).count

\* C27 (row variant matches row size): every row chunkPhotosIntoRows makes
\* with 1 photo has variant full and height 390, with 2 photos a two-photo
\* variant and with 3 photos a three-photo variant, so PhotoRow hands the
\* row's own variant to the layout.
RowVariantMatchesSize ==
  call.fn = "chunkPhotosIntoRows" =>
    \A r \in DOMAIN ret.rows :
      LET row == ret.rows[r]
      IN /\ Len(row.photos) = 1 => row.variant = "full" /\ row.height = 390
         /\ Len(row.photos) = 2 =>
              row.variant \in TwoPhotoVariants /\ twoPhotoVariant(row.variant) = row.variant
         /\ Len(row.photos) >= 3 =>
              row.variant \in ThreePhotoVariants /\ threePhotoVariant(row.variant) = row.variant

\* a returned list of rows whose last row holds the 2 photos left for a
\* pattern entry of 3, and has a two-photo variant
RowVariantWitness ==
  /\ ChunkReturned
  /\ ret.rows # << >>
  /\ Len(ret.rows[Len(ret.rows)].photos) = 2
  /\ patternAt(Len(ret.rows) - 1).count = 3
  /\ ret.rows[Len(ret.rows)].variant = "leftHeavy"

\* ---------------------------------------------------------------------
\* Onboarding: MainApp (mobile/App.tsx) and GetStartedScreen
\* ---------------------------------------------------------------------

\* presses of the "Bring Photos" button
MaxImports == 2

\* GetStartedScreen is what MainApp renders
GetStartedShown == ~appIsLoading /\ ~hasCompletedOnboarding

\* HomeScreen is what MainApp renders
HomeShown == ~appIsLoading /\ hasCompletedOnboarding

\* MainApp after its first render and its mount effect's
\* checkOnboardingStatus(), suspended at await AsyncStorage.getItem; the
\* photo storage hook of GetStartedScreen is not mounted yet
InitOnboarding ==
  /\ NoPipeline
  /\ NoCall
  /\ NoHook
  /\ photos = << >>
  /\ closurePhotos = << >>
  /\ isLoading = TRUE
  /\ clock = 2
  /\ kept = {}
  /\ failed = FALSE
  /\ ops = << >>
  /\ \/ storage = Absent /\ files = {}
     \/ storage = JSONstringify(<< PhotoOf(2, 2, "file"), PhotoOf(1, 1, "file") >>)
        /\ files \in {{1, 2}, {2}}
  /\ onboardingKey \in {"null", "true"}
  /\ hasCompletedOnboarding = FALSE
  /\ appIsLoading = TRUE
  /\ \E value \in {onboardingKey, "rejected"} :
       check = [at |-> "getItem", value |-> value,
                firstRun |-> (onboardingKey = "null")]
  /\ imports = << >>
  /\ completions = << >>

\* checkOnboardingStatus from the result of getItem to its end; MainApp then
\* renders GetStartedScreen, whose storage hook runs loadPhotos(), or HomeScreen
checkOnboardingStatusResumes ==
  /\ check.at = "getItem"
  /\ check' = [check EXCEPT !.at = "done"]
  /\ hasCompletedOnboarding' =
       IF check.value = "rejected" THEN hasCompletedOnboarding
       ELSE check.value = "true"
  /\ appIsLoading' = FALSE
  /\ IF hasCompletedOnboarding'
     THEN UNCHANGED << ops, failed >>
     ELSE \E read \in {storage, Rejected} :
            /\ ops' = << OpOf("loadPhotos", "getItem", read, << >>, TRUE) >>
            /\ failed' = (read = Rejected)
  /\ UNCHANGED << onboardingKey, imports, completions, photos, isLoading,
                  closurePhotos, storage, files, clock, kept >>

\* the call of handleImportPhotos i: at is the await it is suspended at
ImportOf(at, permission, canceled, assets, op) ==
  [at |-> at, status |-> permission, canceled |-> canceled, assets |-> assets,
   op |-> op]

\* handleImportPhotos() up to await requestMediaLibraryPermissionsAsync
handleImportPhotos ==
  /\ GetStartedShown
  /\ Len(imports) < MaxImports
  /\ imports' = Append(imports, ImportOf("permission", "undetermined", TRUE, 0, 0))
  /\ UNCHANGED << onboardingKey, hasCompletedOnboarding, appIsLoading, check,
                  completions, storeVars >>

\* handleImportPhotos from the permission answer to await launchImageLibraryAsync
permissionAnswered(i, permission) ==
  /\ imports[i].at = "permission"
  /\ imports' = [imports EXCEPT ![i] =
                   [@ EXCEPT !.status = permission,
                             !.at = IF permission # "granted" THEN "done"
                                    ELSE "picker"]]
  /\ UNCHANGED << onboardingKey, hasCompletedOnboarding, appIsLoading, check,
                  completions, storeVars >>

\* the picker's answer passes whatever it is
pickedAssetsUnchecked(canceled, assets) == TRUE

\* !result.canceled && result.assets.length > 0
pickedAssets(canceled, assets) == ~canceled /\ assets > 0

\* handleImportPhotos from the picker's result to await savePhotos
pickerReturns(i, canceled, assets) ==
  /\ imports[i].at = "picker"
  /\ IF pickedAssets(canceled, assets)
     THEN \E d \in {0, 1}, copied \in {0, assets}, ok \in BOOLEAN :
            /\ savePhotos(assets, d, copied, ok)
            /\ imports' = [imports EXCEPT ![i] =
                 ImportOf(IF copied < assets THEN "done" ELSE "savePhotos",
                          @.status, canceled, assets, Len(ops) + 1)]
     ELSE /\ imports' = [imports EXCEPT ![i] =
                           ImportOf("done", @.status, canceled, assets, 0)]
          /\ UNCHANGED storeVars
  /\ UNCHANGED << onboardingKey, hasCompletedOnboarding, appIsLoading, check,
                  completions >>

\* completeOnboarding marking onboarding complete whatever setItem did
completeOnboardingResumesAnyway(c) ==
  /\ completions[c].at = "setItem"
  /\ completions' = [completions EXCEPT ![c] = [@ EXCEPT !.at = "done"]]
  /\ hasCompletedOnboarding' = TRUE
  /\ UNCHANGED << onboardingKey, appIsLoading, check, imports, storeVars >>

\* completeOnboarding from the result of setItem to its end
completeOnboardingResumes(c) ==
  /\ completions[c].at = "setItem"
  /\ completions' = [completions EXCEPT ![c] = [@ EXCEPT !.at = "done"]]
  /\ hasCompletedOnboarding' = (hasCompletedOnboarding \/ completions[c].ok)
  /\ UNCHANGED << onboardingKey, appIsLoading, check, imports, storeVars >>

\* savePhotos settles: handleImportPhotos ends if it threw, and otherwise
\* calls onComplete(), that is completeOnboarding() up to await setItem
importSaved(i) ==
  /\ imports[i].at = "savePhotos"
  /\ savePhotosSettles(imports[i].op)
  /\ imports' = [imports EXCEPT ![i] = [@ EXCEPT !.at = "done"]]
  /\ IF ops[imports[i].op].ok
     THEN \E ok \in BOOLEAN :
            /\ onboardingKey' = IF ok THEN "true" ELSE onboardingKey
            /\ completions' = Append(completions, [at |-> "setItem", ok |-> ok])
     ELSE UNCHANGED << onboardingKey, completions >>
  /\ UNCHANGED << hasCompletedOnboarding, appIsLoading, check >>

\* the variables onboarding and the storage hook do not touch
nonAppVars == << pipeVars, call, ret, hookVars >>

CheckOnboardingStatusResumes == checkOnboardingStatusResumes /\ UNCHANGED nonAppVars

HandleImportPhotos == handleImportPhotos /\ UNCHANGED nonAppVars

PermissionAnswered ==
  /\ \E i \in DOMAIN imports, permission \in {"granted", "denied"} :
       permissionAnswered(i, permission)
  /\ UNCHANGED nonAppVars

PickerReturns ==
  /\ \E i \in DOMAIN imports, canceled \in BOOLEAN, assets \in 0..MaxAssets :
       (canceled => assets = 0) /\ pickerReturns(i, canceled, assets)
  /\ UNCHANGED nonAppVars

ImportSaved == (\E i \in DOMAIN imports : importSaved(i)) /\ UNCHANGED nonAppVars

CompleteOnboardingResumes ==
  (\E c \in DOMAIN completions : completeOnboardingResumes(c)) /\ UNCHANGED nonAppVars

NextOnboarding ==
  \/ CheckOnboardingStatusResumes
  \/ HandleImportPhotos
  \/ PermissionAnswered
  \/ PickerReturns
  \/ ImportSaved
  \/ CompleteOnboardingResumes
  \/ LoadPhotosResumes
  \/ LoadPhotosRewritten
  \/ Render

SpecOnboarding == InitOnboarding /\ [][NextOnboarding]_vars

\* the step calls onComplete
OnCompleteInvoked == Len(completions') > Len(completions)

\* the step ends a handleImportPhotos call that had permission granted, got
\* at least one asset from a picker that was not cancelled, and whose
\* savePhotos call resolves
SuccessfulImportEnds ==
  \E i \in DOMAIN imports :
    /\ imports[i].at = "savePhotos" /\ imports'[i].at = "done"
    /\ imports[i].status = "granted"
    /\ ~imports[i].canceled
    /\ imports[i].assets > 0
    /\ ops[imports[i].op].kind = "savePhotos"
    /\ ops[imports[i].op].ok
    /\ ops'[imports[i].op].at = "done"

\* C30 (onboarding completes only after a successful import): a step that
\* invokes onComplete ends a handleImportPhotos call whose permission was
\* granted, whose picker returned at least one asset uncancelled and whose
\* savePhotos resolved; hasCompletedOnboarding becomes true only with
\* '@has_completed_onboarding' = 'true' written, a completeOnboarding whose
\* write failed leaves it as it was, and on a first run HomeScreen is shown
\* only with at least one photo saved.
OnboardingOnlyAfterImport ==
  [][/\ OnCompleteInvoked => SuccessfulImportEnds
     /\ (hasCompletedOnboarding' /\ ~hasCompletedOnboarding) => onboardingKey = "true"
     /\ \A c \in DOMAIN completions :
          (/\ completions[c].at = "setItem" /\ completions'[c].at = "done"
           /\ ~completions[c].ok)
          => hasCompletedOnboarding' = hasCompletedOnboarding
     /\ (check.firstRun /\ HomeShown') => kept' # {}]_vars

\* on a first run HomeScreen is shown after a first import was refused
\* permission and a second one saved its photos
OnboardingWitness ==
  /\ check.firstRun
  /\ HomeShown
  /\ Len(imports) = 2
  /\ imports[1].status = "denied"
  /\ imports[2].status = "granted" /\ imports[2].assets > 0
  /\ imports[2].at = "done"
  /\ onboardingKey = "true"
  /\ kept # {}

====
